---- MODULE Spec2Model ----
(***************************************************************************)
(* Model of the KPI rules engine of the Ngezi concentrator dashboard:      *)
(* calc_variance, classify_performance, summarise_daily_to_monthly and     *)
(* get_executive_summary (ngezi_dashboard/kpis.py), the fact and project   *)
(* tables of ngezi_dashboard/transforms.py, the summaries of               *)
(* ngezi_dashboard/dashboard.py, KPI_REGISTRY (ngezi_dashboard/config.py), *)
(* the weekly-report and mill-ball loaders (ngezi_dashboard/loaders) and   *)
(* the simulated KPI tables (ngezi_dashboard/simulator.py, app.py).        *)
(*                                                                         *)
(* Numbers are exact rationals [kind, n, d]; the two ways pandas and       *)
(* Python mark a missing number (float NaN and None) are kept apart,       *)
(* because arithmetic treats them differently while pd.isna does not.      *)
(***************************************************************************)
EXTENDS Integers, Sequences, FiniteSets, TLC

VARIABLES
    actual,            \* classify_performance / calc_variance argument
    budget,            \* classify_performance / calc_variance argument
    direction,         \* classify_performance argument
    amber_band_pct,    \* classify_performance argument
    rag,               \* what classify_performance returned, or NotCalled
    variance_out,      \* what calc_variance returned, or NotCalled
    kpi_scorecard_df,  \* the wide scorecard handed to build_fact_monthly_kpi
    fact_monthly_kpi,  \* what build_fact_monthly_kpi returned, or NotCalled
    df_daily,          \* the daily frame handed to summarise_daily_to_monthly
    monthly,           \* what summarise_daily_to_monthly returned
    monthly_kpis,      \* the fact table handed to get_manager_overview
    target_period,     \* the period handed to get_manager_overview
    summary,           \* what get_manager_overview returned or raised
    registry_entry,    \* an entry of config.KPI_REGISTRY as written in config.py
    config_status,     \* whether config.py has been imported
    mgmt_summary,      \* what get_monthly_management_summary returned or raised
    fact_consumables,  \* the table handed to get_consumables_summary
    month,             \* the month handed to get_consumables_summary, or NoMonth
    consumables_summary,\* what get_consumables_summary returned
    dim_project,       \* the project dimension table
    fact_project_status, \* the status rows ingested so far
    project_summary,   \* what get_project_status_summary returned
    comments,          \* the comments text handed to _derive_status, as characters
    status,            \* what _derive_status returned, or NotCalled
    rng_stream,        \* the standard normal variates _RNG is going to return, in order
    rng_pos,           \* how many variates _RNG has returned
    sim_data,          \* the dict returned by load_data (its two KPI tables)
    mill_ball_file,    \* the workbook at path: whether it opens, and the sheet that is read
    mill_ball_trends,  \* what load_mill_ball_trends returned or raised
    weekly_file,       \* the workbook at path: whether it opens, and its sheet names
    weekly_calls,      \* the sheet loaders load_weekly_excel has called, in order
    weekly_result      \* what load_weekly_excel returned or raised

vars == <<actual, budget, direction, amber_band_pct, rag, variance_out,
          kpi_scorecard_df, fact_monthly_kpi, df_daily, monthly,
          monthly_kpis, target_period, summary,
          registry_entry, config_status,
          mgmt_summary,
          fact_consumables, month, consumables_summary,
          dim_project, fact_project_status, project_summary,
          comments, status,
          rng_stream, rng_pos, sim_data,
          mill_ball_file, mill_ball_trends,
          weekly_file, weekly_calls, weekly_result>>

kpiVars == <<actual, budget, direction, amber_band_pct, rag, variance_out>>
factVars == <<kpi_scorecard_df, fact_monthly_kpi>>
dailyVars == <<df_daily, monthly>>
summaryVars == <<monthly_kpis, target_period, summary>>
registryVars == <<registry_entry, config_status>>
mgmtVars == <<mgmt_summary>>
consumablesVars == <<fact_consumables, month, consumables_summary>>
projectsVars == <<dim_project, fact_project_status, project_summary>>
statusVars == <<comments, status>>
simulatorVars == <<rng_stream, rng_pos, sim_data>>
millBallVars == <<mill_ball_file, mill_ball_trends>>
weeklyVars == <<weekly_file, weekly_calls, weekly_result>>

-----------------------------------------------------------------------------
(* Bounds of the model *)

\* actual and budget range over the integers -MaxVal..MaxVal
MaxVal == 20

\* at most MaxCells cells of a scorecard hold a number
MaxCells == 2

-----------------------------------------------------------------------------
(* Numbers: exact rationals, NaN and None *)

RECURSIVE GCD(_, _)
GCD(a, b) == IF b = 0 THEN a ELSE GCD(b, a % b)

Abs(x) == IF x < 0 THEN -x ELSE x

\* the rational n/d in lowest terms with a positive denominator (d # 0)
Rat(n, d) ==
    LET g == GCD(Abs(n), Abs(d))
        s == IF d < 0 THEN -1 ELSE 1
    IN  [kind |-> "num", n |-> (s * n) \div g, d |-> (s * d) \div g]

Num(v) == [kind |-> "num", n |-> v, d |-> 1]
NaN == [kind |-> "nan", n |-> 0, d |-> 1]
None == [kind |-> "none", n |-> 0, d |-> 1]

NotCalled == "not_called"
\* fact_monthly_kpi before build_fact_monthly_kpi is called
FactNotBuilt == [built |-> FALSE, columns |-> {}, rows |-> <<>>]

\* a pandas Timestamp at midnight, and the missing one
Timestamp(y, m, d) == [y |-> y, m |-> m, d |-> d]
NaT == [y |-> 0, m |-> 0, d |-> 0]

\* summarise_daily_to_monthly has not run: no frame handed in, none returned
NoFrame == [returned |-> FALSE, columns |-> <<>>, rows |-> <<>>]
DailyIdle == df_daily = NoFrame /\ monthly = NoFrame

\* get_manager_overview has not run
SummaryNotCalled == [status |-> "not_called", value |-> <<>>]
SummaryIdle ==
    /\ monthly_kpis = FactNotBuilt
    /\ target_period = ""
    /\ summary = SummaryNotCalled

\* pd.isna / pd.notna: None and NaN are both missing
isna(x) == x.kind # "num"
notna(x) == x.kind = "num"

\* float arithmetic and comparison; NaN propagates and compares false
FSub(x, y) ==
    IF x.kind = "nan" \/ y.kind = "nan" THEN NaN
    ELSE Rat(x.n * y.d - y.n * x.d, x.d * y.d)
FAdd(x, y) ==
    IF x.kind = "nan" \/ y.kind = "nan" THEN NaN
    ELSE Rat(x.n * y.d + y.n * x.d, x.d * y.d)
FMul(x, y) ==
    IF x.kind = "nan" \/ y.kind = "nan" THEN NaN
    ELSE Rat(x.n * y.n, x.d * y.d)
FDiv(x, y) ==
    IF x.kind = "nan" \/ y.kind = "nan" THEN NaN
    ELSE Rat(x.n * y.d, x.d * y.n)
FGe(x, y) == x.kind = "num" /\ y.kind = "num" /\ x.n * y.d >= y.n * x.d
FLe(x, y) == x.kind = "num" /\ y.kind = "num" /\ x.n * y.d <= y.n * x.d
FEqZero(x) == x.kind = "num" /\ x.n = 0

\* get_monthly_management_summary has not run
MgmtIdle == mgmt_summary = SummaryNotCalled

\* month=None, and get_consumables_summary before it runs
NoMonth == [y |-> -1, m |-> 0, d |-> 0]
ConsumablesIdle ==
    /\ fact_consumables = NoFrame
    /\ month = NoMonth
    /\ consumables_summary = NoFrame

\* no project table has been built
ProjectsIdle ==
    /\ dim_project = NoFrame
    /\ fact_project_status = NoFrame
    /\ project_summary = NoFrame

\* _derive_status has not run
StatusIdle == comments = <<>> /\ status = NotCalled

\* simulator.py has not been imported and load_data has not run
SimNotLoaded == [loaded |-> FALSE, quarterly |-> <<>>, monthly |-> <<>>]
SimulatorIdle ==
    /\ rng_stream = <<>>
    /\ rng_pos = 0
    /\ sim_data = SimNotLoaded

\* load_mill_ball_trends has not run and no workbook is at hand
NoWorkbook == [opens |-> FALSE, ws |-> <<>>]
MillBallIdle ==
    /\ mill_ball_file = NoWorkbook
    /\ mill_ball_trends = SummaryNotCalled

\* load_weekly_excel has not run and no weekly workbook is at hand
NoWeeklyFile == [opens |-> FALSE, sheetnames |-> {}]
WeeklyIdle ==
    /\ weekly_file = NoWeeklyFile
    /\ weekly_calls = <<>>
    /\ weekly_result = SummaryNotCalled

\* config.py has not been imported; the entry looked at is the shipped one
\* of crushed_tonnage
RegistryIdle ==
    /\ registry_entry = [direction |-> "higher_is_better", unit |-> "t",
                         amber_band |-> Num(5)]
    /\ config_status = "not_imported"

-----------------------------------------------------------------------------
(* kpis.py: calc_variance *)

Return(absolute, pct) == [exc |-> "none", absolute |-> absolute, pct |-> pct]
Raise(e) == [exc |-> e, absolute |-> None, pct |-> None]
\* variance_out before calc_variance is called
VarianceNotCalled == [exc |-> "not_called", absolute |-> None, pct |-> None]

\* faulty variant: the variance is returned as a fraction of budget, and as 0 when
\* budget == 0
calc_variance_fraction(a, b) ==
    IF a.kind = "none" \/ b.kind = "none" THEN Raise("TypeError")
    ELSE LET absolute == FSub(a, b)
         IN  IF FEqZero(b) THEN Return(absolute, Num(0))
             ELSE Return(absolute, FDiv(absolute, b))

calc_variance(a, b) ==
    IF a.kind = "none" \/ b.kind = "none" THEN Raise("TypeError")
    ELSE LET absolute == FSub(a, b)
         IN  IF FEqZero(b) THEN Return(absolute, None)
             ELSE Return(absolute, FMul(FDiv(absolute, b), Num(100)))

-----------------------------------------------------------------------------
(* kpis.py: classify_performance *)

\* faulty variant: the budget == 0 guard is dropped
classify_performance_no_zero_guard(a, b, dir, band) ==
    IF isna(a) \/ isna(b) THEN "grey"
    ELSE IF dir = "higher_is_better" THEN
        IF FGe(a, b) THEN "green"
        ELSE IF FGe(a, FMul(b, FSub(Num(1), FDiv(band, Num(100))))) THEN "amber"
        ELSE "red"
    ELSE
        IF FLe(a, b) THEN "green"
        ELSE IF FLe(a, FMul(b, FAdd(Num(1), FDiv(band, Num(100))))) THEN "amber"
        ELSE "red"

\* faulty variant: the amber threshold is taken from actual instead of budget
classify_performance_threshold_from_actual(a, b, dir, band) ==
    IF isna(a) \/ isna(b) THEN "grey"
    ELSE IF FEqZero(b) THEN "grey"
    ELSE IF dir = "higher_is_better" THEN
        IF FGe(a, b) THEN "green"
        ELSE IF FGe(FMul(a, FAdd(Num(1), FDiv(band, Num(100)))), b) THEN "amber"
        ELSE "red"
    ELSE
        IF FLe(a, b) THEN "green"
        ELSE IF FLe(FMul(a, FSub(Num(1), FDiv(band, Num(100)))), b) THEN "amber"
        ELSE "red"

\* faulty variant: strict comparison against budget
classify_performance_strict(a, b, dir, band) ==
    IF isna(a) \/ isna(b) THEN "grey"
    ELSE IF FEqZero(b) THEN "grey"
    ELSE IF dir = "higher_is_better" THEN
        IF FGe(a, b) /\ a # b THEN "green"
        ELSE IF FGe(a, FMul(b, FSub(Num(1), FDiv(band, Num(100))))) THEN "amber"
        ELSE "red"
    ELSE
        IF FLe(a, b) /\ a # b THEN "green"
        ELSE IF FLe(a, FMul(b, FAdd(Num(1), FDiv(band, Num(100))))) THEN "amber"
        ELSE "red"

\* faulty variant: the amber band is used as a fraction, not as a percentage
classify_performance_band_fraction(a, b, dir, band) ==
    IF isna(a) \/ isna(b) THEN "grey"
    ELSE IF FEqZero(b) THEN "grey"
    ELSE IF dir = "higher_is_better" THEN
        IF FGe(a, b) THEN "green"
        ELSE IF FGe(a, FMul(b, FSub(Num(1), band))) THEN "amber"
        ELSE "red"
    ELSE
        IF FLe(a, b) THEN "green"
        ELSE IF FLe(a, FMul(b, FAdd(Num(1), band))) THEN "amber"
        ELSE "red"

\* faulty variant: the higher_is_better branch compares against the amber threshold
\* the way the lower_is_better branch does
classify_performance_amber_flipped(a, b, dir, band) ==
    IF isna(a) \/ isna(b) THEN "grey"
    ELSE IF FEqZero(b) THEN "grey"
    ELSE IF dir = "higher_is_better" THEN
        IF FGe(a, b) THEN "green"
        ELSE IF FLe(a, FMul(b, FSub(Num(1), FDiv(band, Num(100))))) THEN "amber"
        ELSE "red"
    ELSE
        IF FLe(a, b) THEN "green"
        ELSE IF FLe(a, FMul(b, FAdd(Num(1), FDiv(band, Num(100))))) THEN "amber"
        ELSE "red"

classify_performance(a, b, dir, band) ==
    IF isna(a) \/ isna(b) THEN "grey"
    ELSE IF FEqZero(b) THEN "grey"
    ELSE IF dir = "higher_is_better" THEN
        IF FGe(a, b) THEN "green"
        ELSE LET threshold == FMul(b, FSub(Num(1), FDiv(band, Num(100))))
             IN  IF FGe(a, threshold) THEN "amber" ELSE "red"
    ELSE
        IF FLe(a, b) THEN "green"
        ELSE LET threshold == FMul(b, FAdd(Num(1), FDiv(band, Num(100))))
             IN  IF FLe(a, threshold) THEN "amber" ELSE "red"

-----------------------------------------------------------------------------
(* Inputs of the KPI functions *)

Values == {Num(v) : v \in -MaxVal..MaxVal} \cup {NaN, None}

\* the two registered directions and an unregistered one
Directions == {"higher_is_better", "lower_is_better", "sideways"}

\* amber bands in percent of budget: none, the default 5.0, and wider ones
AmberBands == {Num(0), Num(5), Num(10), Num(50)}

InitKpi ==
    /\ actual \in Values
    /\ budget \in Values
    /\ direction \in Directions
    /\ amber_band_pct \in AmberBands
    /\ rag = NotCalled
    /\ variance_out = VarianceNotCalled
    /\ kpi_scorecard_df = <<>>
    /\ fact_monthly_kpi = FactNotBuilt
    /\ DailyIdle
    /\ SummaryIdle
    /\ RegistryIdle
    /\ MgmtIdle
    /\ ConsumablesIdle
    /\ ProjectsIdle
    /\ StatusIdle
    /\ SimulatorIdle
    /\ MillBallIdle
    /\ WeeklyIdle

\* rag = classify_performance(actual, budget, direction, amber_band_pct)
ClassifyPerformance ==
    /\ rag = NotCalled
    /\ rag' = classify_performance(actual, budget, direction, amber_band_pct)
    /\ UNCHANGED <<actual, budget, direction, amber_band_pct, variance_out>>
    /\ UNCHANGED factVars
    /\ UNCHANGED dailyVars
    /\ UNCHANGED summaryVars
    /\ UNCHANGED registryVars
    /\ UNCHANGED mgmtVars
    /\ UNCHANGED consumablesVars
    /\ UNCHANGED projectsVars
    /\ UNCHANGED statusVars
    /\ UNCHANGED simulatorVars
    /\ UNCHANGED millBallVars
    /\ UNCHANGED weeklyVars

\* a further call with another actual against the same budget, direction
\* and amber band
Reclassify ==
    /\ rag # NotCalled
    /\ \E a \in Values :
        /\ actual' = a
        /\ rag' = classify_performance(a, budget, direction, amber_band_pct)
    /\ variance_out' = VarianceNotCalled
    /\ UNCHANGED <<budget, direction, amber_band_pct>>
    /\ UNCHANGED factVars
    /\ UNCHANGED dailyVars
    /\ UNCHANGED summaryVars
    /\ UNCHANGED registryVars
    /\ UNCHANGED mgmtVars
    /\ UNCHANGED consumablesVars
    /\ UNCHANGED projectsVars
    /\ UNCHANGED statusVars
    /\ UNCHANGED simulatorVars
    /\ UNCHANGED millBallVars
    /\ UNCHANGED weeklyVars

\* variance_out = calc_variance(actual, budget)
CalcVariance ==
    /\ variance_out = VarianceNotCalled
    /\ variance_out' = calc_variance(actual, budget)
    /\ UNCHANGED <<actual, budget, direction, amber_band_pct, rag>>
    /\ UNCHANGED factVars
    /\ UNCHANGED dailyVars
    /\ UNCHANGED summaryVars
    /\ UNCHANGED registryVars
    /\ UNCHANGED mgmtVars
    /\ UNCHANGED consumablesVars
    /\ UNCHANGED projectsVars
    /\ UNCHANGED statusVars
    /\ UNCHANGED simulatorVars
    /\ UNCHANGED millBallVars
    /\ UNCHANGED weeklyVars

NextKpi == ClassifyPerformance \/ Reclassify \/ CalcVariance

Spec == InitKpi /\ [][NextKpi]_vars

-----------------------------------------------------------------------------
(* config.py: PLANT_NAME, KPI_REGISTRY, KPI_LABEL_MAP *)

PLANT_NAME == "Ngezi Concentrator"

KPI_REGISTRY ==
    [crushed_tonnage |-> [direction |-> "higher_is_better", unit |-> "t", amber_band |-> Num(5)],
     milling_rate_tph |-> [direction |-> "higher_is_better", unit |-> "tph", amber_band |-> Num(5)],
     milled_tonnage |-> [direction |-> "higher_is_better", unit |-> "t", amber_band |-> Num(5)],
     grind_pct_minus75 |-> [direction |-> "higher_is_better", unit |-> "%", amber_band |-> Num(3)],
     plant_running_time_pct |-> [direction |-> "higher_is_better", unit |-> "%", amber_band |-> Num(3)],
     mass_pull_pct |-> [direction |-> "higher_is_better", unit |-> "%", amber_band |-> Num(3)],
     recovery_6e_pct |-> [direction |-> "higher_is_better", unit |-> "%", amber_band |-> Num(2)],
     mill_ball_consumption_gt |-> [direction |-> "lower_is_better", unit |-> "g/t", amber_band |-> Num(5)],
     filter_cake_moisture_pct |-> [direction |-> "lower_is_better", unit |-> "%", amber_band |-> Num(3)],
     metal_unaccounted_for_pct |-> [direction |-> "lower_is_better", unit |-> "%", amber_band |-> Num(3)],
     raw_water_m3t |-> [direction |-> "lower_is_better", unit |-> "m3/t", amber_band |-> Num(5)],
     total_cost |-> [direction |-> "lower_is_better", unit |-> "USD", amber_band |-> Num(5)]]

KPI_LABEL_MAP ==
    ("Crushed tonnage" :> "crushed_tonnage") @@
    ("Milling rate t/h" :> "milling_rate_tph") @@
    ("Milled tonnage" :> "milled_tonnage") @@
    ("Grind (%-75 microns)" :> "grind_pct_minus75") @@
    ("Plant running time %" :> "plant_running_time_pct") @@
    ("Mass pull (%)" :> "mass_pull_pct") @@
    ("6E Recovery (%)" :> "recovery_6e_pct") @@
    ("Mill Ball consumption g/t" :> "mill_ball_consumption_gt") @@
    ("Filter cake moisture (%)" :> "filter_cake_moisture_pct") @@
    ("Metal Unaccounted For (%)" :> "metal_unaccounted_for_pct") @@
    ("Raw water consumption (m3/t)" :> "raw_water_m3t") @@
    ("Total Cost" :> "total_cost")

\* dict.get(key, default)
DictGet(dict, key, default) ==
    IF key \in DOMAIN dict THEN dict[key] ELSE default

-----------------------------------------------------------------------------
(* config.py: importing the registry; dashboard.py: classifying with it *)

\* an entry added to KPI_REGISTRY the way __init__.py describes: a
\* direction, a unit and an amber band, none of them checked by any code
RegistryEntries ==
    {[direction |-> d, unit |-> "g/t", amber_band |-> band] :
        d \in Directions, band \in AmberBands}

RegistryValues == {NaN, Num(MaxVal - 1), Num(MaxVal)}

InitRegistry ==
    /\ actual \in RegistryValues
    /\ budget \in RegistryValues
    /\ direction = "higher_is_better"
    /\ amber_band_pct = Num(5)
    /\ rag = NotCalled
    /\ variance_out = VarianceNotCalled
    /\ kpi_scorecard_df = <<>>
    /\ fact_monthly_kpi = FactNotBuilt
    /\ DailyIdle
    /\ SummaryIdle
    /\ registry_entry \in RegistryEntries
    /\ config_status = "not_imported"
    /\ MgmtIdle
    /\ ConsumablesIdle
    /\ ProjectsIdle
    /\ StatusIdle
    /\ SimulatorIdle
    /\ MillBallIdle
    /\ WeeklyIdle

\* import of config.py: the dict literal is bound to KPI_REGISTRY as written
ImportConfig ==
    /\ config_status = "not_imported"
    /\ config_status' = "imported"
    /\ UNCHANGED registry_entry
    /\ UNCHANGED kpiVars
    /\ UNCHANGED factVars
    /\ UNCHANGED dailyVars
    /\ UNCHANGED summaryVars
    /\ UNCHANGED mgmtVars
    /\ UNCHANGED consumablesVars
    /\ UNCHANGED projectsVars
    /\ UNCHANGED statusVars
    /\ UNCHANGED simulatorVars
    /\ UNCHANGED millBallVars
    /\ UNCHANGED weeklyVars

\* the body of the loop of get_monthly_management_summary for a row of the
\* KPI of registry_entry
ClassifyRegistered ==
    /\ config_status = "imported"
    /\ rag = NotCalled
    /\ direction' = DictGet(registry_entry, "direction", "higher_is_better")
    /\ amber_band_pct' = DictGet(registry_entry, "amber_band", Num(5))
    /\ rag' = IF notna(actual) /\ notna(budget)
              THEN classify_performance(actual, budget, direction', amber_band_pct')
              ELSE "grey"
    /\ UNCHANGED <<actual, budget, variance_out>>
    /\ UNCHANGED <<registry_entry, config_status>>
    /\ UNCHANGED factVars
    /\ UNCHANGED dailyVars
    /\ UNCHANGED summaryVars
    /\ UNCHANGED mgmtVars
    /\ UNCHANGED consumablesVars
    /\ UNCHANGED projectsVars
    /\ UNCHANGED statusVars
    /\ UNCHANGED simulatorVars
    /\ UNCHANGED millBallVars
    /\ UNCHANGED weeklyVars

NextRegistry == ImportConfig \/ ClassifyRegistered

SpecRegistry == InitRegistry /\ [][NextRegistry]_vars

-----------------------------------------------------------------------------
(* loaders/kpi_scorecard.py: the columns of the wide scorecard *)

\* _PERIOD_GROUPS prefixes and _SUB_COLS, in column order
PeriodPrefixes == <<"q1", "q2_ytd", "aug", "q3", "fy20_ytd">>
SUB_COLS == <<"actual", "budget", "var_pct">>

\* position of a value in a tuple of distinct values
IndexOf(seq, v) == CHOOSE x \in 1..Len(seq) : seq[x] = v

\* col_map: the place of column f"{prefix}_{sub}" among a row's numeric cells
ColumnOf(prefix, sub) ==
    (IndexOf(PeriodPrefixes, prefix) - 1) * Len(SUB_COLS) + IndexOf(SUB_COLS, sub)

\* kpi_row.get(f"{prefix}_{sub}")
Cell(kpi_row, prefix, sub) == kpi_row.cells[ColumnOf(prefix, sub)]

-----------------------------------------------------------------------------
(* transforms.py: build_fact_monthly_kpi *)

\* _PERIOD_LABELS.items(), in insertion order
PERIOD_LABELS ==
    << <<"q1", "2020-Q1">>, <<"q2_ytd", "2020-Q2-YTD">>, <<"aug", "2020-08">>,
       <<"q3", "2020-Q3">>, <<"fy20_ytd", "FY2020-YTD">> >>

FactColumns == {"period", "plant", "kpi_name", "actual", "budget", "variance",
                "variance_pct", "direction", "comments"}

\* faulty variant: variance_pct is recomputed by calc_variance instead of taken
\* from the scorecard
FactRow_recomputed_pct(kpi_row, prefix, period_label) ==
    LET raw_label == kpi_row.kpi
        kpi_name == DictGet(KPI_LABEL_MAP, raw_label, raw_label)
        registry == DictGet(KPI_REGISTRY, kpi_name, [none |-> 0])
        a == Cell(kpi_row, prefix, "actual")
        b == Cell(kpi_row, prefix, "budget")
        both == notna(a) /\ notna(b)
    IN  [period |-> period_label,
         plant |-> PLANT_NAME,
         kpi_name |-> kpi_name,
         actual |-> a,
         budget |-> b,
         variance |-> IF both THEN calc_variance(a, b).absolute ELSE None,
         variance_pct |-> IF both THEN calc_variance(a, b).pct ELSE None,
         direction |-> DictGet(registry, "direction", "higher_is_better"),
         comments |-> kpi_row.comments]

\* faulty variant: variance is budget - actual
FactRow_variance_reversed(kpi_row, prefix, period_label) ==
    LET raw_label == kpi_row.kpi
        kpi_name == DictGet(KPI_LABEL_MAP, raw_label, raw_label)
        registry == DictGet(KPI_REGISTRY, kpi_name, [none |-> 0])
        a == Cell(kpi_row, prefix, "actual")
        b == Cell(kpi_row, prefix, "budget")
    IN  [period |-> period_label,
         plant |-> PLANT_NAME,
         kpi_name |-> kpi_name,
         actual |-> a,
         budget |-> b,
         variance |-> IF notna(a) /\ notna(b) THEN FSub(b, a) ELSE None,
         variance_pct |-> Cell(kpi_row, prefix, "var_pct"),
         direction |-> DictGet(registry, "direction", "higher_is_better"),
         comments |-> kpi_row.comments]

\* faulty variant: a label missing from KPI_LABEL_MAP gets the name "unknown"
FactRow_unmapped_renamed(kpi_row, prefix, period_label) ==
    LET raw_label == kpi_row.kpi
        kpi_name == DictGet(KPI_LABEL_MAP, raw_label, "unknown")
        registry == DictGet(KPI_REGISTRY, kpi_name, [none |-> 0])
        a == Cell(kpi_row, prefix, "actual")
        b == Cell(kpi_row, prefix, "budget")
    IN  [period |-> period_label,
         plant |-> PLANT_NAME,
         kpi_name |-> kpi_name,
         actual |-> a,
         budget |-> b,
         variance |-> IF notna(a) /\ notna(b) THEN FSub(a, b) ELSE None,
         variance_pct |-> Cell(kpi_row, prefix, "var_pct"),
         direction |-> DictGet(registry, "direction", "higher_is_better"),
         comments |-> kpi_row.comments]

\* faulty variant: the registry is looked up by the raw label
FactRow_registry_by_raw_label(kpi_row, prefix, period_label) ==
    LET raw_label == kpi_row.kpi
        kpi_name == DictGet(KPI_LABEL_MAP, raw_label, raw_label)
        registry == DictGet(KPI_REGISTRY, raw_label, [none |-> 0])
        a == Cell(kpi_row, prefix, "actual")
        b == Cell(kpi_row, prefix, "budget")
    IN  [period |-> period_label,
         plant |-> PLANT_NAME,
         kpi_name |-> kpi_name,
         actual |-> a,
         budget |-> b,
         variance |-> IF notna(a) /\ notna(b) THEN FSub(a, b) ELSE None,
         variance_pct |-> Cell(kpi_row, prefix, "var_pct"),
         direction |-> DictGet(registry, "direction", "higher_is_better"),
         comments |-> kpi_row.comments]

\* the dict appended for one (kpi_row, period) pair that is not skipped
FactRow(kpi_row, prefix, period_label) ==
    LET raw_label == kpi_row.kpi
        kpi_name == DictGet(KPI_LABEL_MAP, raw_label, raw_label)
        registry == DictGet(KPI_REGISTRY, kpi_name, [none |-> 0])
        a == Cell(kpi_row, prefix, "actual")
        b == Cell(kpi_row, prefix, "budget")
        var_pct == Cell(kpi_row, prefix, "var_pct")
        variance == IF notna(a) /\ notna(b) THEN FSub(a, b) ELSE None
    IN  [period |-> period_label,
         plant |-> PLANT_NAME,
         kpi_name |-> kpi_name,
         actual |-> a,
         budget |-> b,
         variance |-> variance,
         variance_pct |-> var_pct,
         direction |-> DictGet(registry, "direction", "higher_is_better"),
         comments |-> kpi_row.comments]

\* faulty variant: a pair is skipped when either of actual and budget is missing
RECURSIVE RowsOfRecord_skip_either(_, _)
RowsOfRecord_skip_either(kpi_row, j) ==
    IF j = 0 THEN <<>>
    ELSE LET prefix == PERIOD_LABELS[j][1]
             period_label == PERIOD_LABELS[j][2]
             before == RowsOfRecord_skip_either(kpi_row, j - 1)
         IN  IF isna(Cell(kpi_row, prefix, "actual"))
                  \/ isna(Cell(kpi_row, prefix, "budget"))
             THEN before
             ELSE Append(before, FactRow(kpi_row, prefix, period_label))

\* the inner loop over _PERIOD_LABELS for one scorecard row: the rows
\* appended for the first j periods
RECURSIVE RowsOfRecord(_, _)
RowsOfRecord(kpi_row, j) ==
    IF j = 0 THEN <<>>
    ELSE LET prefix == PERIOD_LABELS[j][1]
             period_label == PERIOD_LABELS[j][2]
             before == RowsOfRecord(kpi_row, j - 1)
         IN  IF isna(Cell(kpi_row, prefix, "actual"))
                  /\ isna(Cell(kpi_row, prefix, "budget"))
             THEN before
             ELSE Append(before, FactRow(kpi_row, prefix, period_label))

\* the outer loop over the first i scorecard rows
RECURSIVE RowsOfScorecard(_, _)
RowsOfScorecard(df, i) ==
    IF i = 0 THEN <<>>
    ELSE RowsOfScorecard(df, i - 1) \o RowsOfRecord(df[i], Len(PERIOD_LABELS))

\* pd.DataFrame(rows): no rows give a frame without columns; a None in a
\* column that also holds a float becomes NaN
DataFrame(rows) ==
    LET floats == \E k \in 1..Len(rows) : rows[k].variance.kind # "none"
    IN  [built |-> TRUE,
         columns |-> IF rows = <<>> THEN {} ELSE FactColumns,
         rows |-> [k \in 1..Len(rows) |->
                     IF floats /\ rows[k].variance.kind = "none"
                     THEN [rows[k] EXCEPT !.variance = NaN]
                     ELSE rows[k]]]

build_fact_monthly_kpi(kpi_scorecard) ==
    DataFrame(RowsOfScorecard(kpi_scorecard, Len(kpi_scorecard)))

-----------------------------------------------------------------------------
(* Scorecards handed to build_fact_monthly_kpi *)

\* raw labels: one that KPI_LABEL_MAP knows and one it does not
KpiLabels == {"Total Cost", "Head grade g/t"}

\* the numbers a scorecard cell may hold (a cell without one holds NaN)
CellValues == {Num(0), Num(2)}

\* number of rows of a scorecard
RecordCounts == {0, 1, 2}

CellsPerRecord == Len(PeriodPrefixes) * Len(SUB_COLS)

\* the scorecard of n rows with the given labels whose cells pos[1..k],
\* counted row by row and column by column, hold val[1..k]
Scorecard(n, labels, k, pos, val) ==
    [i \in 1..n |->
        [kpi |-> labels[i],
         comments |-> "None",
         cells |->
            [col \in 1..CellsPerRecord |->
                LET id == (i - 1) * CellsPerRecord + col
                IN  IF \E c \in 1..k : pos[c] = id
                    THEN val[CHOOSE c \in 1..k : pos[c] = id]
                    ELSE NaN]]]

KpiDefaults ==
    /\ actual = None
    /\ budget = None
    /\ direction = "higher_is_better"
    /\ amber_band_pct = Num(5)
    /\ rag = NotCalled
    /\ variance_out = VarianceNotCalled

InitFact ==
    /\ KpiDefaults
    /\ \E n \in RecordCounts, k \in 0..MaxCells :
        \E labels \in [1..n -> KpiLabels] :
          \E pos \in [1..k -> 1..(n * CellsPerRecord)] :
            /\ \A c \in 1..(k - 1) : pos[c] < pos[c + 1]
            /\ \E val \in [1..k -> CellValues] :
                 kpi_scorecard_df = Scorecard(n, labels, k, pos, val)
    /\ fact_monthly_kpi = FactNotBuilt
    /\ DailyIdle
    /\ SummaryIdle
    /\ RegistryIdle
    /\ MgmtIdle
    /\ ConsumablesIdle
    /\ ProjectsIdle
    /\ StatusIdle
    /\ SimulatorIdle
    /\ MillBallIdle
    /\ WeeklyIdle

\* fact_monthly_kpi = build_fact_monthly_kpi(kpi_scorecard_df)
BuildFactMonthlyKpi ==
    /\ ~fact_monthly_kpi.built
    /\ fact_monthly_kpi' = build_fact_monthly_kpi(kpi_scorecard_df)
    /\ UNCHANGED kpi_scorecard_df
    /\ UNCHANGED kpiVars
    /\ UNCHANGED dailyVars
    /\ UNCHANGED summaryVars
    /\ UNCHANGED registryVars
    /\ UNCHANGED mgmtVars
    /\ UNCHANGED consumablesVars
    /\ UNCHANGED projectsVars
    /\ UNCHANGED statusVars
    /\ UNCHANGED simulatorVars
    /\ UNCHANGED millBallVars
    /\ UNCHANGED weeklyVars

NextFact == BuildFactMonthlyKpi

SpecFact == InitFact /\ [][NextFact]_vars

-----------------------------------------------------------------------------
(* pandas: the frame a local name refers to *)

\* faulty variant: the local name refers to the caller's frame itself
copy_alias(frame) == [own |-> FALSE, frame |-> frame]

\* DataFrame.copy(): a new frame, owned by the function, with the same contents
copy(frame) == [own |-> TRUE, frame |-> frame]

\* df[mask]: boolean indexing gives a new frame
Filtered(frame, Keep(_)) ==
    [own |-> TRUE, frame |-> [frame EXCEPT !.rows = SelectSeq(@, Keep)]]

\* what the caller's frame holds when the function is done with df
CallerFrame(input, df) == IF df.own THEN input ELSE df.frame

-----------------------------------------------------------------------------
(* kpis.py: summarise_daily_to_monthly *)

\* faulty variant: the date is kept as the month
MonthOf_keeps_day(date) == date

\* df["date"].dt.to_period("M").dt.to_timestamp(): first day of the month
MonthOf(date) ==
    IF date = NaT THEN NaT ELSE [y |-> date.y, m |-> date.m, d |-> 1]

TimestampLt(a, b) ==
    \/ a.y < b.y
    \/ a.y = b.y /\ a.m < b.m
    \/ a.y = b.y /\ a.m = b.m /\ a.d < b.d

sum_cols ==
    <<"crushed_tonnage_actual", "crushed_tonnage_target",
      "milled_tonnage_actual", "milled_tonnage_target",
      "oz_produced_actual", "oz_produced_target">>
mean_cols ==
    <<"milling_rate_tph_actual",
      "recovery_pct_actual", "recovery_pct_target",
      "crusher_availability_pct", "mill_availability_pct">>

\* [c for c in cols if c in df.columns]
Available(cols, df) ==
    SelectSeq(cols, LAMBDA c : \E x \in 1..Len(df.columns) : df.columns[x] = c)

\* groupby(...).sum() of one column over the first i rows of a group:
\* missing values are skipped, and a group without values sums to 0
RECURSIVE GroupSum(_, _, _)
GroupSum(rows, col, i) ==
    IF i = 0 THEN Num(0)
    ELSE IF isna(rows[i].vals[col]) THEN GroupSum(rows, col, i - 1)
    ELSE FAdd(GroupSum(rows, col, i - 1), rows[i].vals[col])

\* how many of the first i rows of a group hold a value in the column
RECURSIVE GroupCount(_, _, _)
GroupCount(rows, col, i) ==
    IF i = 0 THEN 0
    ELSE GroupCount(rows, col, i - 1) + (IF isna(rows[i].vals[col]) THEN 0 ELSE 1)

\* faulty variant: the mean divides by the number of rows of the group
GroupMean_over_all_rows(rows, col) ==
    IF GroupCount(rows, col, Len(rows)) = 0 THEN NaN
    ELSE FDiv(GroupSum(rows, col, Len(rows)), Num(Len(rows)))

\* groupby(...).mean() of one column: the mean of the values that are not
\* missing, NaN for a group without values
GroupMean(rows, col) ==
    IF GroupCount(rows, col, Len(rows)) = 0 THEN NaN
    ELSE FDiv(GroupSum(rows, col, Len(rows)),
              Num(GroupCount(rows, col, Len(rows))))

\* the group keys of groupby("month"): the distinct months, NaT dropped,
\* in ascending order
RECURSIVE SortedKeys(_)
SortedKeys(keys) ==
    IF keys = {} THEN <<>>
    ELSE LET first == CHOOSE k \in keys : \A o \in keys \ {k} : TimestampLt(k, o)
         IN  <<first>> \o SortedKeys(keys \ {first})

GroupKeys(df) ==
    SortedKeys({MonthOf(df.rows[i].date) : i \in 1..Len(df.rows)} \ {NaT})

\* df.groupby("month").agg(agg_dict).reset_index(), then the plant column
Aggregate(df, available_sum, available_mean) ==
    LET keys == GroupKeys(df)
        in_sum(c) == \E x \in 1..Len(available_sum) : available_sum[x] = c
        agg_cols == available_sum \o available_mean
    IN  [returned |-> TRUE,
         columns |-> <<"month", "plant">> \o agg_cols,
         rows |->
            [g \in 1..Len(keys) |->
                LET group == SelectSeq(df.rows,
                                LAMBDA r : MonthOf(r.date) = keys[g])
                IN  [month |-> keys[g],
                     plant |-> IF \E x \in 1..Len(df.columns) : df.columns[x] = "plant"
                               THEN df.rows[1].plant
                               ELSE "Ngezi Concentrator",
                     vals |->
                        [c \in {agg_cols[x] : x \in 1..Len(agg_cols)} |->
                            IF in_sum(c)
                            THEN GroupSum(group, c, Len(group))
                            ELSE GroupMean(group, c)]]]]

\* df["month"] = ...: the column is written into the frame df refers to
WithMonth(df) ==
    [df EXCEPT !.frame =
        [@ EXCEPT !.columns = Append(@, "month"),
                  !.rows = [i \in 1..Len(@) |->
                              [date |-> @[i].date, plant |-> @[i].plant,
                               vals |-> @[i].vals,
                               month |-> MonthOf(@[i].date)]]]]

\* the caller's daily frame after summarise_daily_to_monthly(frame)
DailyFrameAfter(frame) ==
    IF frame.rows = <<>> THEN frame
    ELSE CallerFrame(frame, WithMonth(copy(frame)))

\* pd.DataFrame(): no columns, no rows
EmptyDataFrame == [returned |-> TRUE, columns |-> <<>>, rows |-> <<>>]

summarise_daily_to_monthly(df) ==
    IF df.rows = <<>> THEN EmptyDataFrame
    ELSE LET available_sum == Available(sum_cols, df)
             available_mean == Available(mean_cols, df)
         IN  IF available_sum \o available_mean = <<>> THEN EmptyDataFrame
             ELSE Aggregate(df, available_sum, available_mean)

-----------------------------------------------------------------------------
(* Daily frames handed to summarise_daily_to_monthly *)

\* transforms.py build_fact_daily_plant: the columns of fact_daily_plant
schema_cols ==
    <<"date", "plant",
      "crushed_tonnage_actual", "crushed_tonnage_target",
      "milled_tonnage_actual", "milled_tonnage_target",
      "milling_rate_tph_actual",
      "recovery_pct_actual", "recovery_pct_target",
      "oz_produced_actual", "oz_produced_target",
      "crusher_availability_pct", "mill_availability_pct">>

MetricCols == {schema_cols[x] : x \in 3..Len(schema_cols)}

\* dates of daily rows: two days of one month, the same month a year
\* earlier, and a date cell that could not be parsed
DailyDates ==
    {Timestamp(2021, 10, 5), Timestamp(2021, 10, 20), Timestamp(2020, 10, 5), NaT}

\* the metric columns in which one daily row holds a value
PopulatedCols ==
    {{},
     {"milled_tonnage_actual"},
     {"milled_tonnage_actual", "milled_tonnage_target"},
     {"recovery_pct_actual"},
     {"milled_tonnage_actual", "recovery_pct_actual"},
     {"oz_produced_actual", "mill_availability_pct"}}

DailyValues == {Num(1), Num(3)}

DailyRowCounts == {0, 1, 2}

DailyRows ==
    UNION {{[date |-> date, plant |-> PLANT_NAME,
             vals |-> [c \in MetricCols |-> IF c \in cols THEN val[c] ELSE NaN]] :
                val \in [cols -> DailyValues], date \in DailyDates} :
           cols \in PopulatedCols}

InitDaily ==
    /\ KpiDefaults
    /\ kpi_scorecard_df = <<>>
    /\ fact_monthly_kpi = FactNotBuilt
    /\ \E n \in DailyRowCounts :
         \E rows \in [1..n -> DailyRows] :
            df_daily = [returned |-> TRUE, columns |-> schema_cols, rows |-> rows]
    /\ monthly = NoFrame
    /\ SummaryIdle
    /\ RegistryIdle
    /\ MgmtIdle
    /\ ConsumablesIdle
    /\ ProjectsIdle
    /\ StatusIdle
    /\ SimulatorIdle
    /\ MillBallIdle
    /\ WeeklyIdle

\* monthly = summarise_daily_to_monthly(df_daily)
SummariseDailyToMonthly ==
    /\ df_daily.returned
    /\ ~monthly.returned
    /\ monthly' = summarise_daily_to_monthly(df_daily)
    /\ df_daily' = DailyFrameAfter(df_daily)
    /\ UNCHANGED kpiVars
    /\ UNCHANGED factVars
    /\ UNCHANGED summaryVars
    /\ UNCHANGED registryVars
    /\ UNCHANGED mgmtVars
    /\ UNCHANGED consumablesVars
    /\ UNCHANGED projectsVars
    /\ UNCHANGED statusVars
    /\ UNCHANGED simulatorVars
    /\ UNCHANGED millBallVars
    /\ UNCHANGED weeklyVars

NextDaily == SummariseDailyToMonthly

SpecDaily == InitDaily /\ [][NextDaily]_vars

-----------------------------------------------------------------------------
(* kpis.py: get_executive_summary; dashboard.py: get_manager_overview *)

\* domain_map.items(), in insertion order
domain_map ==
    << <<"crushed_tonnage", "crushing">>, <<"milled_tonnage", "milling">>,
       <<"recovery_6e_pct", "recovery">>,
       <<"mill_ball_consumption_gt", "mill_balls">>,
       <<"raw_water_m3t", "water">>, <<"total_cost", "cost">> >>

\* a call that returned a value, and one that raised
Returned(value) == [status |-> "returned", value |-> value]
Raised(e) == [status |-> e, value |-> <<>>]

\* faulty variant: a missing value is emitted as zero
DomainEntry_zero_for_missing(period_df, kpi_name) ==
    LET kpi_rows == SelectSeq(period_df, LAMBDA r : r.kpi_name = kpi_name)
    IN  IF kpi_rows = <<>>
        THEN [actual |-> None, budget |-> None, var_pct |-> None, rag |-> "grey"]
        ELSE LET row == kpi_rows[1]
                 registry == DictGet(KPI_REGISTRY, kpi_name, [none |-> 0])
                 amber_band == DictGet(registry, "amber_band", Num(5))
             IN  [actual |-> IF notna(row.actual) THEN row.actual ELSE Num(0),
                  budget |-> IF notna(row.budget) THEN row.budget ELSE Num(0),
                  var_pct |-> IF notna(row.variance_pct)
                              THEN row.variance_pct ELSE Num(0),
                  rag |-> IF notna(row.actual) /\ notna(row.budget)
                          THEN classify_performance(row.actual, row.budget,
                                                    row.direction, amber_band)
                          ELSE "grey"]

\* faulty variant: the amber band is always the default 5.0
DomainEntry_default_band(period_df, kpi_name) ==
    LET kpi_rows == SelectSeq(period_df, LAMBDA r : r.kpi_name = kpi_name)
    IN  IF kpi_rows = <<>>
        THEN [actual |-> None, budget |-> None, var_pct |-> None, rag |-> "grey"]
        ELSE LET row == kpi_rows[1]
             IN  [actual |-> IF notna(row.actual) THEN row.actual ELSE None,
                  budget |-> IF notna(row.budget) THEN row.budget ELSE None,
                  var_pct |-> IF notna(row.variance_pct)
                              THEN row.variance_pct ELSE None,
                  rag |-> IF notna(row.actual) /\ notna(row.budget)
                          THEN classify_performance(row.actual, row.budget,
                                                    row.direction, Num(5))
                          ELSE "grey"]

\* summary[domain] for one entry of domain_map
DomainEntry(period_df, kpi_name) ==
    LET kpi_rows == SelectSeq(period_df, LAMBDA r : r.kpi_name = kpi_name)
    IN  IF kpi_rows = <<>>
        THEN [actual |-> None, budget |-> None, var_pct |-> None, rag |-> "grey"]
        ELSE LET row == kpi_rows[1]
                 a == row.actual
                 b == row.budget
                 var_pct == row.variance_pct
                 dir == DictGet(row, "direction", "higher_is_better")
                 registry == DictGet(KPI_REGISTRY, kpi_name, [none |-> 0])
                 amber_band == DictGet(registry, "amber_band", Num(5))
                 colour == IF notna(a) /\ notna(b)
                           THEN classify_performance(a, b, dir, amber_band)
                           ELSE "grey"
             IN  [actual |-> IF notna(a) THEN a ELSE None,
                  budget |-> IF notna(b) THEN b ELSE None,
                  var_pct |-> IF notna(var_pct) THEN var_pct ELSE None,
                  rag |-> colour]

\* monthly_kpis["period"] raises KeyError on a frame without that column
get_executive_summary(fact_table, period) ==
    IF "period" \notin fact_table.columns THEN Raised("KeyError")
    ELSE LET period_df == SelectSeq(fact_table.rows, LAMBDA r : r.period = period)
             domains == {domain_map[x][2] : x \in 1..Len(domain_map)}
             kpi_of(domain) ==
                domain_map[CHOOSE x \in 1..Len(domain_map) :
                                domain_map[x][2] = domain][1]
         IN  Returned([key \in {"period"} \cup domains |->
                        IF key = "period" THEN period
                        ELSE DomainEntry(period_df, kpi_of(key))])

\* dashboard.py: a thin wrapper
get_manager_overview(fact_table, selected_period) ==
    get_executive_summary(fact_table, selected_period)

-----------------------------------------------------------------------------
(* dashboard.py: get_monthly_management_summary *)

ManagementColumns ==
    <<"kpi_name", "actual", "budget", "variance", "variance_pct", "rag",
      "comments">>

\* the rag appended to rag_values for one row of period_df
ManagementRag(row) ==
    LET registry == DictGet(KPI_REGISTRY, row.kpi_name, [none |-> 0])
        dir == DictGet(registry, "direction",
                       DictGet(row, "direction", "higher_is_better"))
        amber_band == DictGet(registry, "amber_band", Num(5))
    IN  IF notna(row.actual) /\ notna(row.budget)
        THEN classify_performance(row.actual, row.budget, dir, amber_band)
        ELSE "grey"

\* period_df after period_df["rag"] = rag_values
WithRag(df, Rag(_)) ==
    [df EXCEPT !.frame =
        [@ EXCEPT !.columns = @ \cup {"rag"},
                  !.rows = [i \in 1..Len(@) |->
                              [period |-> @[i].period, plant |-> @[i].plant,
                               kpi_name |-> @[i].kpi_name,
                               actual |-> @[i].actual, budget |-> @[i].budget,
                               variance |-> @[i].variance,
                               variance_pct |-> @[i].variance_pct,
                               direction |-> @[i].direction,
                               comments |-> @[i].comments,
                               rag |-> Rag(@[i])]]]]

\* period_df = monthly_kpis[monthly_kpis["period"] == selected_period].copy()
PeriodDf(fact_table, selected_period) ==
    copy(Filtered(fact_table, LAMBDA r : r.period = selected_period).frame)

get_monthly_management_summary(fact_table, selected_period) ==
    IF "period" \notin fact_table.columns THEN Raised("KeyError")
    ELSE LET period_df == PeriodDf(fact_table, selected_period)
         IN  IF period_df.frame.rows = <<>>
             THEN Returned([columns |-> ManagementColumns, rows |-> <<>>])
             ELSE LET rows == WithRag(period_df, ManagementRag).frame.rows
                  IN  Returned(
                        [columns |-> ManagementColumns,
                         rows |-> [i \in 1..Len(rows) |->
                                     [kpi_name |-> rows[i].kpi_name,
                                      actual |-> rows[i].actual,
                                      budget |-> rows[i].budget,
                                      variance |-> rows[i].variance,
                                      variance_pct |-> rows[i].variance_pct,
                                      rag |-> rows[i].rag,
                                      comments |-> rows[i].comments]]])

\* the caller's fact table after get_monthly_management_summary
FactTableAfterManagement(fact_table, selected_period) ==
    IF "period" \notin fact_table.columns THEN fact_table
    ELSE LET period_df == PeriodDf(fact_table, selected_period)
         IN  IF period_df.frame.rows = <<>> THEN fact_table
             ELSE CallerFrame(fact_table, WithRag(period_df, ManagementRag))

\* mgmt_summary = get_monthly_management_summary(monthly_kpis, target_period)
GetMonthlyManagementSummary ==
    /\ monthly_kpis.built
    /\ mgmt_summary.status = "not_called"
    /\ mgmt_summary' = get_monthly_management_summary(monthly_kpis, target_period)
    /\ monthly_kpis' = FactTableAfterManagement(monthly_kpis, target_period)
    /\ UNCHANGED <<target_period, summary>>
    /\ UNCHANGED kpiVars
    /\ UNCHANGED factVars
    /\ UNCHANGED dailyVars
    /\ UNCHANGED registryVars
    /\ UNCHANGED consumablesVars
    /\ UNCHANGED projectsVars
    /\ UNCHANGED statusVars
    /\ UNCHANGED simulatorVars
    /\ UNCHANGED millBallVars
    /\ UNCHANGED weeklyVars

-----------------------------------------------------------------------------
(* dashboard.py: get_consumables_summary *)

\* transforms.py build_fact_monthly_consumables: the columns of the table
ConsumablesColumns ==
    <<"month", "plant", "consumable", "actual", "budget", "variance",
      "variance_pct">>

\* the rag appended to rag_values for one row
ConsumablesRag(row) ==
    IF notna(row.actual) /\ notna(row.budget) /\ ~FEqZero(row.budget)
    THEN classify_performance(row.actual, row.budget, "lower_is_better", Num(5))
    ELSE "grey"

\* df after df["rag"] = rag_values
WithConsumablesRag(df) ==
    [df EXCEPT !.frame =
        [@ EXCEPT !.columns = Append(@, "rag"),
                  !.rows = [i \in 1..Len(@) |->
                              [month |-> @[i].month, plant |-> @[i].plant,
                               consumable |-> @[i].consumable,
                               actual |-> @[i].actual, budget |-> @[i].budget,
                               variance |-> @[i].variance,
                               variance_pct |-> @[i].variance_pct,
                               rag |-> ConsumablesRag(@[i])]]]]

\* df when the rag column has been written
ConsumablesDf(frame, mon) ==
    LET df == copy(frame)
        of_month == IF mon # NoMonth
                    THEN Filtered(df.frame, LAMBDA r : r.month = mon)
                    ELSE df
    IN  WithConsumablesRag(of_month)

get_consumables_summary(frame, mon) ==
    IF frame.rows = <<>> THEN frame ELSE ConsumablesDf(frame, mon).frame

\* the caller's table after get_consumables_summary
ConsumablesAfter(frame, mon) ==
    IF frame.rows = <<>> THEN frame
    ELSE CallerFrame(frame, ConsumablesDf(frame, mon))

-----------------------------------------------------------------------------
(* Tables handed to get_consumables_summary *)

ConsumablesMonths == {Timestamp(2021, 10, 1), Timestamp(2021, 9, 1)}
Consumables == {"steel_balls", "Raw water"}
ConsumablesActuals == {NaN, Num(MaxVal - 1)}
ConsumablesBudgets == {NaN, Num(0), Num(MaxVal)}

ConsumablesRows ==
    {[month |-> mon, plant |-> PLANT_NAME, consumable |-> c,
      actual |-> a, budget |-> b,
      variance |-> IF notna(a) /\ notna(b) /\ ~FEqZero(b)
                   THEN FSub(a, b) ELSE NaN,
      variance_pct |-> IF notna(a) /\ notna(b) /\ ~FEqZero(b)
                       THEN FMul(FDiv(FSub(a, b), b), Num(100)) ELSE NaN] :
        mon \in ConsumablesMonths, c \in Consumables,
        a \in ConsumablesActuals, b \in ConsumablesBudgets}

ConsumablesRowCounts == {0, 1, 2}

InitConsumables ==
    /\ KpiDefaults
    /\ kpi_scorecard_df = <<>>
    /\ fact_monthly_kpi = FactNotBuilt
    /\ DailyIdle
    /\ SummaryIdle
    /\ RegistryIdle
    /\ MgmtIdle
    /\ \E n \in ConsumablesRowCounts :
         \E rows \in [1..n -> ConsumablesRows] :
            fact_consumables =
                [returned |-> TRUE,
                 columns |-> IF n = 0 THEN <<>> ELSE ConsumablesColumns,
                 rows |-> rows]
    /\ month \in ConsumablesMonths \cup {NoMonth}
    /\ consumables_summary = NoFrame
    /\ ProjectsIdle
    /\ StatusIdle
    /\ SimulatorIdle
    /\ MillBallIdle
    /\ WeeklyIdle

\* consumables_summary = get_consumables_summary(fact_consumables, month)
GetConsumablesSummary ==
    /\ fact_consumables.returned
    /\ ~consumables_summary.returned
    /\ consumables_summary' = get_consumables_summary(fact_consumables, month)
    /\ fact_consumables' = ConsumablesAfter(fact_consumables, month)
    /\ UNCHANGED month
    /\ UNCHANGED kpiVars
    /\ UNCHANGED factVars
    /\ UNCHANGED dailyVars
    /\ UNCHANGED summaryVars
    /\ UNCHANGED registryVars
    /\ UNCHANGED mgmtVars
    /\ UNCHANGED projectsVars
    /\ UNCHANGED statusVars
    /\ UNCHANGED simulatorVars
    /\ UNCHANGED millBallVars
    /\ UNCHANGED weeklyVars

-----------------------------------------------------------------------------
(* Fact tables and periods handed to get_manager_overview *)

SummaryPeriods == {"2020-Q3", "2020-08"}
TargetPeriods == {"2020-Q3", "2099-Q1"}

\* two KPIs of domain_map, with different registered directions and amber
\* bands, and one that is in no domain
SummaryKpis == {"total_cost", "recovery_6e_pct", "Head grade g/t"}

SummaryActuals == {NaN, Num(MaxVal - 1)}
SummaryBudgets == {NaN, Num(0), Num(MaxVal)}
SummaryVarPcts == {NaN, Num(-5)}
SummaryDirections == {"higher_is_better", "lower_is_better"}

\* rows as build_fact_monthly_kpi writes them; the stored direction is a
\* value of the table and need not be the registered one
SummaryFactRows ==
    {[period |-> p,
      plant |-> PLANT_NAME,
      kpi_name |-> name,
      actual |-> a,
      budget |-> b,
      variance |-> IF notna(a) /\ notna(b) THEN FSub(a, b) ELSE None,
      variance_pct |-> v,
      direction |-> dir,
      comments |-> "None"] :
        p \in SummaryPeriods, name \in SummaryKpis, a \in SummaryActuals,
        b \in SummaryBudgets, v \in SummaryVarPcts, dir \in SummaryDirections}

SummaryRowCounts == {0, 1, 2}

\* a scorecard without a single number: no pair is emitted
BlankScorecard == Scorecard(1, <<"Total Cost">>, 0, <<>>, <<>>)

InitSummary ==
    /\ KpiDefaults
    /\ kpi_scorecard_df = <<>>
    /\ fact_monthly_kpi = FactNotBuilt
    /\ DailyIdle
    /\ \/ monthly_kpis = build_fact_monthly_kpi(BlankScorecard)
       \/ \E n \in SummaryRowCounts :
            \E rows \in [1..n -> SummaryFactRows] :
                monthly_kpis = DataFrame(rows)
    /\ target_period \in TargetPeriods
    /\ summary = SummaryNotCalled
    /\ RegistryIdle
    /\ MgmtIdle
    /\ ConsumablesIdle
    /\ ProjectsIdle
    /\ StatusIdle
    /\ SimulatorIdle
    /\ MillBallIdle
    /\ WeeklyIdle

\* summary = get_manager_overview(monthly_kpis, target_period)
GetManagerOverview ==
    /\ monthly_kpis.built
    /\ summary.status = "not_called"
    /\ summary' = get_manager_overview(monthly_kpis, target_period)
    /\ UNCHANGED <<monthly_kpis, target_period>>
    /\ UNCHANGED kpiVars
    /\ UNCHANGED factVars
    /\ UNCHANGED dailyVars
    /\ UNCHANGED registryVars
    /\ UNCHANGED mgmtVars
    /\ UNCHANGED consumablesVars
    /\ UNCHANGED projectsVars
    /\ UNCHANGED statusVars
    /\ UNCHANGED simulatorVars
    /\ UNCHANGED millBallVars
    /\ UNCHANGED weeklyVars

NextSummary == GetManagerOverview

SpecSummary == InitSummary /\ [][NextSummary]_vars

-----------------------------------------------------------------------------
(* transforms.py: build_dim_project, build_fact_project_status;
   dashboard.py: get_project_status_summary *)

\* at most MaxSnapshots weekly reports are ingested
MaxSnapshots == 2

\* a field of a merged row that no right row filled
Missing == "NaN"

DimColumns == <<"project_id", "project_name", "responsible", "planned_completion">>
StatusColumns == <<"snapshot_date", "project_id", "status", "comments">>

build_dim_project(projects_df) ==
    IF projects_df.rows = <<>>
    THEN [returned |-> TRUE, columns |-> DimColumns, rows |-> <<>>]
    ELSE [returned |-> TRUE, columns |-> DimColumns,
          rows |-> [i \in 1..Len(projects_df.rows) |->
                      [project_id |-> projects_df.rows[i].project_id,
                       project_name |-> projects_df.rows[i].project_name,
                       responsible |-> projects_df.rows[i].responsible,
                       planned_completion |->
                            projects_df.rows[i].planned_completion]]]

build_fact_project_status(projects_df, snapshot_date) ==
    LET date == IF snapshot_date = NoMonth THEN Timestamp(2021, 11, 5)
                ELSE snapshot_date
    IN  IF projects_df.rows = <<>>
        THEN [returned |-> TRUE, columns |-> StatusColumns, rows |-> <<>>]
        ELSE [returned |-> TRUE, columns |-> StatusColumns,
              rows |-> [i \in 1..Len(projects_df.rows) |->
                          [snapshot_date |-> date,
                           project_id |-> projects_df.rows[i].project_id,
                           status |-> projects_df.rows[i].status,
                           comments |-> projects_df.rows[i].comments]]]

\* the rows of left.merge(right, on="project_id", how="left") for the first
\* i rows of left: every left row once per matching right row, in the order
\* of right, and once with missing fields when nothing matches
RECURSIVE MergeLeft(_, _, _)
MergeLeft(left, right, i) ==
    IF i = 0 THEN <<>>
    ELSE LET l == left[i]
             matching == SelectSeq(right, LAMBDA r : r.project_id = l.project_id)
             joined(r) == [project_id |-> l.project_id,
                           project_name |-> l.project_name,
                           responsible |-> l.responsible,
                           planned_completion |-> l.planned_completion,
                           snapshot_date |-> r.snapshot_date,
                           status |-> r.status,
                           comments |-> r.comments]
         IN  MergeLeft(left, right, i - 1) \o
             (IF matching = <<>>
              THEN <<joined([snapshot_date |-> NaT, status |-> Missing,
                             comments |-> Missing])>>
              ELSE [k \in 1..Len(matching) |-> joined(matching[k])])

get_project_status_summary(dim, fact) ==
    IF dim.rows = <<>> \/ fact.rows = <<>>
    THEN [returned |-> TRUE, columns |-> <<>>, rows |-> <<>>]
    ELSE [returned |-> TRUE,
          columns |-> DimColumns \o <<"snapshot_date", "status", "comments">>,
          rows |-> MergeLeft(dim.rows, fact.rows, Len(dim.rows))]

-----------------------------------------------------------------------------
(* Project tables and weekly reports *)

ProjectIds == <<"a", "b">>
Statuses == {"completed", "in_progress"}

\* the projects table of one weekly report: for each project id either no
\* row or a row with a status
ProjectsTable(f) ==
    [returned |-> TRUE,
     columns |-> <<"project_id", "project_name", "responsible",
                   "planned_completion", "status", "comments">>,
     rows |-> LET all == [i \in 1..Len(ProjectIds) |->
                            [project_id |-> ProjectIds[i],
                             project_name |-> "Portal sealing",
                             responsible |-> "AS",
                             planned_completion |-> Timestamp(2021, 12, 1),
                             status |-> f[i],
                             comments |-> f[i]]]
              IN  SelectSeq(all, LAMBDA r : r.status \in Statuses)]

Reports ==
    {ProjectsTable(f) : f \in [1..Len(ProjectIds) -> Statuses \cup {"absent"}]}

\* the k-th weekly report is dated later than the one before
SnapshotDate(k) == Timestamp(2021, 11, k)

Snapshots(fact) == {fact.rows[i].snapshot_date : i \in 1..Len(fact.rows)}

InitProjects ==
    /\ KpiDefaults
    /\ kpi_scorecard_df = <<>>
    /\ fact_monthly_kpi = FactNotBuilt
    /\ DailyIdle
    /\ SummaryIdle
    /\ RegistryIdle
    /\ MgmtIdle
    /\ ConsumablesIdle
    /\ \E projects_df \in Reports : dim_project = build_dim_project(projects_df)
    /\ fact_project_status =
            build_fact_project_status(ProjectsTable(<<"absent", "absent">>), NoMonth)
    /\ project_summary = NoFrame
    /\ StatusIdle
    /\ SimulatorIdle
    /\ MillBallIdle
    /\ WeeklyIdle

\* a weekly report is ingested: its status rows are appended, and a summary
\* shown before belongs to the earlier table
IngestWeeklyReport ==
    /\ dim_project.returned
    /\ Cardinality(Snapshots(fact_project_status)) < MaxSnapshots
    /\ \E projects_df \in Reports :
         LET k == Cardinality(Snapshots(fact_project_status)) + 1
             new == build_fact_project_status(projects_df, SnapshotDate(k))
         IN  /\ new.rows # <<>>
             /\ fact_project_status' =
                    [fact_project_status EXCEPT !.rows = @ \o new.rows]
    /\ project_summary' = NoFrame
    /\ UNCHANGED dim_project
    /\ UNCHANGED kpiVars
    /\ UNCHANGED factVars
    /\ UNCHANGED dailyVars
    /\ UNCHANGED summaryVars
    /\ UNCHANGED registryVars
    /\ UNCHANGED mgmtVars
    /\ UNCHANGED consumablesVars
    /\ UNCHANGED statusVars
    /\ UNCHANGED simulatorVars
    /\ UNCHANGED millBallVars
    /\ UNCHANGED weeklyVars

\* project_summary = get_project_status_summary(dim_project, fact_project_status)
GetProjectStatusSummary ==
    /\ dim_project.returned
    /\ ~project_summary.returned
    /\ project_summary' = get_project_status_summary(dim_project, fact_project_status)
    /\ UNCHANGED <<dim_project, fact_project_status>>
    /\ UNCHANGED kpiVars
    /\ UNCHANGED factVars
    /\ UNCHANGED dailyVars
    /\ UNCHANGED summaryVars
    /\ UNCHANGED registryVars
    /\ UNCHANGED mgmtVars
    /\ UNCHANGED consumablesVars
    /\ UNCHANGED statusVars
    /\ UNCHANGED simulatorVars
    /\ UNCHANGED millBallVars
    /\ UNCHANGED weeklyVars

NextProjects == IngestWeeklyReport \/ GetProjectStatusSummary

SpecProjects == InitProjects /\ [][NextProjects]_vars

-----------------------------------------------------------------------------
(* loaders/weekly_report.py: _derive_status *)

\* at most MaxFragments phrases make up a comments text
MaxFragments == 2

\* str.lower() on the letters that occur in upper case
Lower(text) ==
    [i \in 1..Len(text) |->
        IF text[i] = "D" THEN "d" ELSE IF text[i] = "C" THEN "c" ELSE text[i]]

\* keyword in text
Contains(text, keyword) ==
    \E i \in 0..(Len(text) - Len(keyword)) :
        SubSeq(text, i + 1, i + Len(keyword)) = keyword

ContainsAny(text, keywords) == \E k \in keywords : Contains(text, k)

CompletedWords ==
    {<<"c", "o", "m", "p", "l", "e", "t", "e">>,
     <<"d", "o", "n", "e">>,
     <<"c", "l", "o", "s", "e", "d">>}
InProgressWords ==
    {<<"i", "n", " ", "p", "r", "o", "g", "r", "e", "s", "s">>,
     <<"o", "n", "g", "o", "i", "n", "g">>,
     <<"u", "n", "d", "e", "r", "w", "a", "y">>}
PendingWords ==
    {<<"p", "e", "n", "d", "i", "n", "g">>,
     <<"a", "w", "a", "i", "t", "i", "n", "g">>,
     <<"n", "o", "t", " ", "s", "t", "a", "r", "t", "e", "d">>}
DelayedWords ==
    {<<"d", "e", "l", "a", "y", "e", "d">>,
     <<"o", "v", "e", "r", "d", "u", "e">>}

\* faulty variant: pending is tested before in_progress
derive_status_pending_first(text) ==
    IF text = <<>> THEN "unknown"
    ELSE LET lower == Lower(text)
         IN  IF ContainsAny(lower, CompletedWords) THEN "completed"
             ELSE IF ContainsAny(lower, PendingWords) THEN "pending"
             ELSE IF ContainsAny(lower, InProgressWords) THEN "in_progress"
             ELSE IF ContainsAny(lower, DelayedWords) THEN "delayed"
             ELSE IF Len(text) > 5 THEN "in_progress"
             ELSE "unknown"

derive_status(text) ==
    IF text = <<>> THEN "unknown"
    ELSE LET lower == Lower(text)
         IN  IF ContainsAny(lower, CompletedWords) THEN "completed"
             ELSE IF ContainsAny(lower, InProgressWords) THEN "in_progress"
             ELSE IF ContainsAny(lower, PendingWords) THEN "pending"
             ELSE IF ContainsAny(lower, DelayedWords) THEN "delayed"
             ELSE IF Len(text) > 5 THEN "in_progress"
             ELSE "unknown"

-----------------------------------------------------------------------------
(* Comments texts handed to _derive_status *)

\* phrases of project comments: with and without keywords, short and long
Fragments ==
    {<<"D", "o", "n", "e">>,
     <<"c", "l", "o", "s", "e", "d">>,
     <<"o", "n", "g", "o", "i", "n", "g">>,
     <<"a", "w", "a", "i", "t", "i", "n", "g">>,
     <<"o", "v", "e", "r", "d", "u", "e">>,
     <<"i", "n", "c", "o", "m", "p", "l", "e", "t", "e">>,
     <<"t", "b", "c">>,
     <<"s", "i", "t", "e", " ", "v", "i", "s", "i", "t">>,
     <<"i", "n">>,
     <<"p", "r", "o", "g", "r", "e", "s", "s">>}

\* the texts of n phrases separated by blanks
RECURSIVE Texts(_)
Texts(n) ==
    IF n = 0 THEN {<<>>}
    ELSE Texts(n - 1) \cup Fragments
            \cup {t \o <<" ">> \o f : t \in Texts(n - 1) \ {<<>>}, f \in Fragments}

InitStatus ==
    /\ KpiDefaults
    /\ kpi_scorecard_df = <<>>
    /\ fact_monthly_kpi = FactNotBuilt
    /\ DailyIdle
    /\ SummaryIdle
    /\ RegistryIdle
    /\ MgmtIdle
    /\ ConsumablesIdle
    /\ ProjectsIdle
    /\ comments \in Texts(MaxFragments)
    /\ status = NotCalled
    /\ SimulatorIdle
    /\ MillBallIdle
    /\ WeeklyIdle

\* status = _derive_status(comments)
DeriveStatus ==
    /\ status = NotCalled
    /\ status' = derive_status(comments)
    /\ UNCHANGED comments
    /\ UNCHANGED kpiVars
    /\ UNCHANGED factVars
    /\ UNCHANGED dailyVars
    /\ UNCHANGED summaryVars
    /\ UNCHANGED registryVars
    /\ UNCHANGED mgmtVars
    /\ UNCHANGED consumablesVars
    /\ UNCHANGED projectsVars
    /\ UNCHANGED simulatorVars
    /\ UNCHANGED millBallVars
    /\ UNCHANGED weeklyVars

NextStatus == DeriveStatus

SpecStatus == InitStatus /\ [][NextStatus]_vars

-----------------------------------------------------------------------------
(* main.py: the fact table is built and handed to both summaries *)

\* raw labels of two overview KPIs, one lower_is_better with amber band 5 and
\* one higher_is_better with amber band 2
OverviewLabels == {"Total Cost", "6E Recovery (%)"}

OverviewActuals == {NaN, Num(MaxVal - 1), Num(MaxVal + 1)}
OverviewBudgets == {NaN, Num(MaxVal)}
OverviewPeriods == {"2020-Q3", "2020-08"}

\* a scorecard record with numbers in its q3 and aug columns only
OverviewRecord(label, q3_actual, q3_budget, aug_actual) ==
    [kpi |-> label,
     comments |-> "None",
     cells |-> [col \in 1..CellsPerRecord |->
                  IF col = ColumnOf("q3", "actual") THEN q3_actual
                  ELSE IF col = ColumnOf("q3", "budget") THEN q3_budget
                  ELSE IF col = ColumnOf("aug", "actual") THEN aug_actual
                  ELSE NaN]]

OverviewRecords ==
    {OverviewRecord(label, a, b, c) :
        label \in OverviewLabels, a \in OverviewActuals,
        b \in OverviewBudgets, c \in OverviewBudgets}

InitOverview ==
    /\ KpiDefaults
    /\ \E n \in RecordCounts :
         \E records \in [1..n -> OverviewRecords] : kpi_scorecard_df = records
    /\ fact_monthly_kpi = FactNotBuilt
    /\ DailyIdle
    /\ SummaryIdle
    /\ RegistryIdle
    /\ MgmtIdle
    /\ ConsumablesIdle
    /\ ProjectsIdle
    /\ StatusIdle
    /\ SimulatorIdle
    /\ MillBallIdle
    /\ WeeklyIdle

\* fact_kpi = build_fact_monthly_kpi(kpi_scorecard), the table then handed
\* to the summaries with a target period
BuildFactKpi ==
    /\ ~fact_monthly_kpi.built
    /\ fact_monthly_kpi' = build_fact_monthly_kpi(kpi_scorecard_df)
    /\ monthly_kpis' = fact_monthly_kpi'
    /\ target_period' \in OverviewPeriods
    /\ UNCHANGED <<kpi_scorecard_df, summary, mgmt_summary>>
    /\ UNCHANGED kpiVars
    /\ UNCHANGED dailyVars
    /\ UNCHANGED registryVars
    /\ UNCHANGED consumablesVars
    /\ UNCHANGED projectsVars
    /\ UNCHANGED statusVars
    /\ UNCHANGED simulatorVars
    /\ UNCHANGED millBallVars
    /\ UNCHANGED weeklyVars

NextOverview ==
    \/ BuildFactKpi
    \/ GetMonthlyManagementSummary
    \/ GetManagerOverview

SpecOverview == InitOverview /\ [][NextOverview]_vars

-----------------------------------------------------------------------------
(* The functions that take a table and return a derived one *)

InitDerive == InitDaily \/ InitSummary \/ InitConsumables

NextDerive ==
    \/ SummariseDailyToMonthly
    \/ GetManagerOverview
    \/ GetMonthlyManagementSummary
    \/ GetConsumablesSummary

SpecDerive == InitDerive /\ [][NextDerive]_vars

-----------------------------------------------------------------------------
(* Claims about classify_performance and calc_variance *)

Called == rag # NotCalled
BothPresent == notna(actual) /\ notna(budget)
Registered == direction \in {"higher_is_better", "lower_is_better"}

\* C1: classify_performance returns grey whenever actual is missing, budget
\* is missing or budget == 0, for every direction and every amber band.
GreyWhenMissingOrZeroBudget ==
    (Called /\ (isna(actual) \/ isna(budget) \/ FEqZero(budget)))
        => rag = "grey"

GreyOnZeroBudgetReached ==
    /\ rag = "grey"
    /\ notna(actual) /\ actual.n # 0
    /\ FEqZero(budget)
    /\ direction = "lower_is_better"

\* the rule of the classify_performance docstring, over integers a, b and an
\* integer percentage p
ReferenceRule(a, b, dir, p) ==
    IF dir = "higher_is_better" THEN
        IF a >= b THEN "green"
        ELSE IF 100 * a >= b * (100 - p) THEN "amber"
        ELSE "red"
    ELSE
        IF a <= b THEN "green"
        ELSE IF 100 * a <= b * (100 + p) THEN "amber"
        ELSE "red"

\* C2: for present actual, present non-zero budget and a registered direction
\* classify_performance is the reference rule: green at or beyond budget,
\* amber within amber_band_pct percent of budget, red otherwise; the four
\* worked scenarios of the specification come out green, amber, red, amber.
MatchesReferenceRule ==
    /\ (Called /\ BothPresent /\ budget.n # 0 /\ Registered)
          => rag = ReferenceRule(actual.n, budget.n, direction, amber_band_pct.n)
    /\ classify_performance(Num(105), Num(100), "higher_is_better", Num(5)) = "green"
    /\ classify_performance(Num(97), Num(100), "higher_is_better", Num(5)) = "amber"
    /\ classify_performance(Num(90), Num(100), "higher_is_better", Num(5)) = "red"
    /\ classify_performance(Num(550), Num(540), "lower_is_better", Num(5)) = "amber"

AmberAtDefaultBandReached ==
    /\ rag = "amber"
    /\ direction = "higher_is_better"
    /\ amber_band_pct = Num(5)
    /\ BothPresent /\ budget.n > 0

\* C3 as stated: actual == budget gives green for either direction, every
\* budget included.
GreenAtBudget ==
    (Called /\ BothPresent /\ Registered /\ actual = budget) => rag = "green"

\* C3, amended: actual == budget with budget # 0 gives green for either
\* direction and every amber band (at budget == 0 the result is grey).
GreenAtNonZeroBudget ==
    (Called /\ BothPresent /\ Registered /\ actual = budget)
        => rag = (IF budget.n = 0 THEN "grey" ELSE "green")

GreenAtBudgetReached ==
    /\ rag = "green"
    /\ BothPresent /\ actual = budget
    /\ direction = "lower_is_better"
    /\ amber_band_pct = Num(0)

\* C4: a direction that is neither higher_is_better nor lower_is_better is
\* classified as higher_is_better would be.
UnknownDirectionAsHigher ==
    (Called /\ ~Registered)
        => rag = classify_performance(actual, budget, "higher_is_better",
                                      amber_band_pct)

\* by how much actual misses budget on the unfavourable side
Miss == IF direction = "higher_is_better" THEN budget.n - actual.n
        ELSE actual.n - budget.n

\* C5 as stated: for every non-zero budget, positive or negative, a miss of
\* at most amber_band_pct percent of the budget's size is amber, not red.
AmberWithinBandAnyBudget ==
    (/\ Called /\ BothPresent /\ Registered
     /\ budget.n # 0 /\ amber_band_pct.n > 0
     /\ Miss > 0 /\ 100 * Miss <= amber_band_pct.n * Abs(budget.n))
        => rag = "amber"

\* C5, amended: for every positive budget, either direction and every
\* amber band > 0, a miss of at most amber_band_pct percent of budget is
\* amber and a larger miss is red: the boundary is budget * band / 100,
\* whatever actual is.
AmberWithinBandPositiveBudget ==
    (/\ Called /\ BothPresent /\ Registered
     /\ budget.n > 0 /\ amber_band_pct.n > 0
     /\ Miss > 0)
        => rag = (IF 100 * Miss <= amber_band_pct.n * budget.n
                  THEN "amber" ELSE "red")

AmberOnLowerIsBetterReached ==
    /\ rag = "amber"
    /\ direction = "lower_is_better"
    /\ BothPresent /\ budget.n > 0
    /\ 100 * (actual.n - budget.n) = amber_band_pct.n * budget.n

Rank(r) == CASE r = "red" -> 0 [] r = "amber" -> 1 [] r = "green" -> 2
             [] OTHER -> -1

\* C6: for a fixed budget > 0, a fixed amber band and higher_is_better, a
\* further call with an actual at least as large gives a status at least as
\* good, in the order red < amber < green.
MonotoneInActual ==
    [][(/\ Called /\ rag' # NotCalled
        /\ budget' = budget /\ direction' = direction
        /\ amber_band_pct' = amber_band_pct
        /\ notna(budget) /\ budget.n > 0
        /\ direction = "higher_is_better"
        /\ notna(actual) /\ notna(actual')
        /\ FLe(actual, actual'))
           => Rank(rag) <= Rank(rag')]_vars

RedBelowBandReached ==
    /\ rag = "red"
    /\ direction = "higher_is_better"
    /\ BothPresent /\ budget.n > 0 /\ actual.n > 0
    /\ amber_band_pct.n > 0

\* C7: with both operands present calc_variance returns actual - budget and,
\* when budget # 0, that difference as a percentage of budget; when
\* budget == 0 the percentage is None; calc_variance(110, 100) = (10, 10) and
\* calc_variance(110, 0) = (110, None).
VarianceAndPercentage ==
    /\ (variance_out # VarianceNotCalled /\ BothPresent) =>
          /\ variance_out.exc = "none"
          /\ variance_out.absolute = Num(actual.n - budget.n)
          /\ budget.n # 0 =>
                /\ variance_out.pct.kind = "num"
                /\ variance_out.pct.n * budget.n
                     = 100 * (actual.n - budget.n) * variance_out.pct.d
          /\ budget.n = 0 => variance_out.pct = None
    /\ calc_variance(Num(110), Num(100)) = Return(Num(10), Num(10))
    /\ calc_variance(Num(110), Num(0)) = Return(Num(110), None)

VarianceAtZeroBudgetReached ==
    /\ variance_out.exc = "none"
    /\ notna(actual) /\ actual.n # 0
    /\ FEqZero(budget)
    /\ variance_out.absolute = actual

-----------------------------------------------------------------------------
(* Claims about build_fact_monthly_kpi *)

Built == fact_monthly_kpi.built
FactRows == fact_monthly_kpi.rows
NumPeriods == Len(PERIOD_LABELS)

\* the (scorecard row, period) pairs, numbered row by row in period order
PairRow(q) == kpi_scorecard_df[(q - 1) \div NumPeriods + 1]
PairPrefix(q) == PERIOD_LABELS[((q - 1) % NumPeriods) + 1][1]
PairLabel(q) == PERIOD_LABELS[((q - 1) % NumPeriods) + 1][2]
PairCell(q, sub) == Cell(PairRow(q), PairPrefix(q), sub)
AllPairs == [q \in 1..(Len(kpi_scorecard_df) * NumPeriods) |-> q]

\* the pairs in which at least one of actual and budget is present
PairHasData(q) == notna(PairCell(q, "actual")) \/ notna(PairCell(q, "budget"))
PairsWithData == SelectSeq(AllPairs, PairHasData)

\* variance / budget * 100 of a fact row, missing when it is undefined
RecomputedPct(r) ==
    IF notna(r.actual) /\ notna(r.budget) /\ r.budget.n # 0
    THEN Rat(100 * (r.actual.n - r.budget.n), r.budget.n)
    ELSE NaN

\* C8 as stated: variance_pct of every fact row is recomputed as
\* variance / budget * 100 when actual and budget are present and
\* budget # 0, and is missing otherwise, whatever the scorecard supplied.
VariancePctRecomputed ==
    Built => \A m \in 1..Len(FactRows) :
        IF notna(RecomputedPct(FactRows[m]))
        THEN FactRows[m].variance_pct = RecomputedPct(FactRows[m])
        ELSE isna(FactRows[m].variance_pct)

\* C8, amended: variance_pct of every fact row is the scorecard's
\* <period>_var_pct cell of its pair, passed through unchanged (missing
\* when that cell is missing); it is not recomputed.
VariancePctIsUpstream ==
    Built =>
        LET pairs == PairsWithData
        IN  /\ Len(FactRows) = Len(pairs)
            /\ \A m \in 1..Len(FactRows) :
                 FactRows[m].variance_pct = PairCell(pairs[m], "var_pct")

UpstreamPctEmitted ==
    /\ Built
    /\ \E m \in 1..Len(FactRows) :
         /\ notna(FactRows[m].variance_pct)
         /\ FactRows[m].variance_pct # RecomputedPct(FactRows[m])

OneRowPerPairWithData ==
    Built =>
        LET pairs == PairsWithData
        IN  /\ Len(FactRows) = Len(pairs)
            /\ \A m \in 1..Len(FactRows) :
                 /\ FactRows[m].period = PairLabel(pairs[m])
                 /\ FactRows[m].actual = PairCell(pairs[m], "actual")
                 /\ FactRows[m].budget = PairCell(pairs[m], "budget")
                 /\ notna(FactRows[m].actual) \/ notna(FactRows[m].budget)

HalfPairEmittedEmptyPairSkipped ==
    /\ Built
    /\ Len(FactRows) = 1
    /\ isna(FactRows[1].actual) /\ notna(FactRows[1].budget)
    /\ \E q \in 1..Len(AllPairs) :
         ~PairHasData(q) /\ notna(PairCell(q, "var_pct"))

\* C11: build_fact_monthly_kpi maps each raw label through KPI_LABEL_MAP to its
\* canonical KPI name; a label not in the map is kept as kpi_name, and the
\* rows of its record are still emitted.
LabelMappedOrKept ==
    Built =>
        LET pairs == PairsWithData
        IN  /\ Len(FactRows) = Len(pairs)
            /\ \A k \in 1..Len(pairs) :
                 LET raw_label == PairRow(pairs[k]).kpi
                 IN  FactRows[k].kpi_name =
                        IF raw_label \in DOMAIN KPI_LABEL_MAP
                        THEN KPI_LABEL_MAP[raw_label]
                        ELSE raw_label

UnmappedLabelRowEmitted ==
    /\ Built
    /\ \E k \in 1..Len(FactRows) : FactRows[k].kpi_name = "Head grade g/t"
    /\ \E k \in 1..Len(FactRows) : FactRows[k].kpi_name = "total_cost"

\* C12: every fact row carries the KPI_REGISTRY direction of its kpi_name, or
\* higher_is_better when the kpi_name has no registry entry.
RowDirectionFromRegistry ==
    Built =>
        \A k \in 1..Len(FactRows) :
            LET name == FactRows[k].kpi_name
            IN  FactRows[k].direction =
                    IF name \in DOMAIN KPI_REGISTRY
                    THEN KPI_REGISTRY[name].direction
                    ELSE "higher_is_better"

LowerAndDefaultDirectionEmitted ==
    /\ Built
    /\ \E k \in 1..Len(FactRows) :
         FactRows[k].kpi_name = "total_cost"
            /\ FactRows[k].direction = "lower_is_better"
    /\ \E k \in 1..Len(FactRows) :
         FactRows[k].kpi_name = "Head grade g/t"
            /\ FactRows[k].direction = "higher_is_better"

-----------------------------------------------------------------------------
(* Claims about summarise_daily_to_monthly *)

Summarised == monthly.returned
DailyRowsIn == df_daily.rows
MonthlyRows == monthly.rows

\* the daily rows of one calendar month
RowsOfMonth(y, m) ==
    {i \in 1..Len(DailyRowsIn) :
        /\ DailyRowsIn[i].date # NaT
        /\ DailyRowsIn[i].date.y = y
        /\ DailyRowsIn[i].date.m = m}

\* those of them that hold a value in a column
RowsWithValue(y, m, col) ==
    {i \in RowsOfMonth(y, m) : notna(DailyRowsIn[i].vals[col])}

RECURSIVE SumOfRows(_, _)
SumOfRows(S, col) ==
    IF S = {} THEN Num(0)
    ELSE LET i == CHOOSE x \in S : TRUE
         IN  FAdd(DailyRowsIn[i].vals[col], SumOfRows(S \ {i}, col))

\* C13: the months of the output are exactly the distinct calendar months
\* (as first day of the month) of the input dates, one output row per month;
\* an empty input gives an empty result.
MonthsAreInputMonths ==
    Summarised =>
        LET dates == {DailyRowsIn[i].date : i \in 1..Len(DailyRowsIn)} \ {NaT}
            expected == {Timestamp(t.y, t.m, 1) : t \in dates}
        IN  /\ {MonthlyRows[g].month : g \in 1..Len(MonthlyRows)} = expected
            /\ Len(MonthlyRows) = Cardinality(expected)
            /\ (DailyRowsIn = <<>> => MonthlyRows = <<>>)

TwoDaysOneMonthRow ==
    /\ Summarised
    /\ Len(DailyRowsIn) = 2
    /\ DailyRowsIn[1].date = Timestamp(2021, 10, 5)
    /\ DailyRowsIn[2].date = Timestamp(2021, 10, 20)
    /\ Len(MonthlyRows) = 1
    /\ MonthlyRows[1].month = Timestamp(2021, 10, 1)

\* C14: a metric field without a value in every daily row of a month has no
\* value in that month's output row; it is never emitted as zero.
AllMissingFieldOmitted ==
    Summarised =>
        \A g \in 1..Len(MonthlyRows) :
            \A col \in DOMAIN MonthlyRows[g].vals :
                RowsWithValue(MonthlyRows[g].month.y, MonthlyRows[g].month.m, col) = {}
                    => isna(MonthlyRows[g].vals[col])

\* C15: per month, an additive field is the sum of the field over the month's
\* rows, an intensive field the arithmetic mean over the month's rows that
\* have a value.
SumAndMeanPerMonth ==
    Summarised =>
        \A g \in 1..Len(MonthlyRows) :
            LET y == MonthlyRows[g].month.y
                m == MonthlyRows[g].month.m
                additive == {"crushed_tonnage_actual", "crushed_tonnage_target",
                             "milled_tonnage_actual", "milled_tonnage_target",
                             "oz_produced_actual", "oz_produced_target"}
                intensive == {"milling_rate_tph_actual", "recovery_pct_actual",
                              "recovery_pct_target", "crusher_availability_pct",
                              "mill_availability_pct"}
            IN  /\ DOMAIN MonthlyRows[g].vals = additive \cup intensive
                /\ \A col \in additive :
                     MonthlyRows[g].vals[col]
                        = SumOfRows(RowsWithValue(y, m, col), col)
                /\ \A col \in intensive :
                     LET with == RowsWithValue(y, m, col)
                     IN  with # {} =>
                            MonthlyRows[g].vals[col]
                                = FDiv(SumOfRows(with, col), Num(Cardinality(with)))

MeanSkipsRowWithoutValue ==
    /\ Summarised
    /\ Len(MonthlyRows) = 1
    /\ Cardinality(RowsOfMonth(2021, 10)) = 2
    /\ Cardinality(RowsWithValue(2021, 10, "recovery_pct_actual")) = 1
    /\ MonthlyRows[1].vals["recovery_pct_actual"] = Num(3)
    /\ Cardinality(RowsWithValue(2021, 10, "milled_tonnage_actual")) = 2
    /\ MonthlyRows[1].vals["milled_tonnage_actual"] = Num(4)

-----------------------------------------------------------------------------
(* Claims about get_executive_summary and get_manager_overview *)

SummaryCalled == summary.status # "not_called"
SummaryReturned == summary.status = "returned"

\* the rows of the fact table for one KPI in the target period, in order
MatchingRows(kpi_name) ==
    SelectSeq(monthly_kpis.rows,
              LAMBDA r : r.period = target_period /\ r.kpi_name = kpi_name)

NoValueEntry == [actual |-> None, budget |-> None, var_pct |-> None, rag |-> "grey"]

\* C16: for every fact table and every target period the result is a dict
\* with exactly the keys period, crushing, milling, recovery, mill_balls,
\* water and cost; period is the requested period and every domain holds
\* exactly actual, budget, var_pct and rag.
SummaryHasPeriodAndSixDomains ==
    SummaryCalled =>
        /\ SummaryReturned
        /\ DOMAIN summary.value = {"period", "crushing", "milling", "recovery",
                                   "mill_balls", "water", "cost"}
        /\ summary.value["period"] = target_period
        /\ \A key \in DOMAIN summary.value \ {"period"} :
             DOMAIN summary.value[key] = {"actual", "budget", "var_pct", "rag"}

\* C17: a domain whose KPI has no fact row in the target period gets
\* {actual: None, budget: None, var_pct: None, rag: grey}, whatever rows of
\* other periods or other KPIs the table holds.
NoRowGivesNoValueEntry ==
    SummaryCalled =>
        \A x \in 1..Len(domain_map) :
            MatchingRows(domain_map[x][1]) = <<>>
                => /\ SummaryReturned
                   /\ summary.value[domain_map[x][2]] = NoValueEntry

\* C18: for a domain whose KPI has a fact row in the target period, rag is
\* classify_performance(actual, budget, d, b) with d and b the direction and
\* amber band registered in KPI_REGISTRY, whatever direction the row stores.
RagFromRegisteredDirection ==
    SummaryReturned =>
        \A x \in 1..Len(domain_map) :
            LET kpi_name == domain_map[x][1]
                matching == MatchingRows(kpi_name)
            IN  matching # <<>> =>
                    summary.value[domain_map[x][2]].rag
                        = classify_performance(matching[1].actual,
                                               matching[1].budget,
                                               KPI_REGISTRY[kpi_name].direction,
                                               KPI_REGISTRY[kpi_name].amber_band)

\* a value as the summary shows it: the number, or None when it is missing
Shown(v) == IF v.kind = "num" THEN v ELSE None

\* C19: the matched row's actual, budget and variance_pct are emitted
\* unchanged, a missing one as None and never as zero; rag is grey whenever
\* actual or budget is missing.
RowValuesEmittedOrNone ==
    SummaryReturned =>
        \A x \in 1..Len(domain_map) :
            LET matching == MatchingRows(domain_map[x][1])
                entry == summary.value[domain_map[x][2]]
            IN  matching # <<>> =>
                    /\ entry.actual = Shown(matching[1].actual)
                    /\ entry.budget = Shown(matching[1].budget)
                    /\ entry.var_pct = Shown(matching[1].variance_pct)
                    /\ (isna(matching[1].actual) \/ isna(matching[1].budget))
                            => entry.rag = "grey"

MissingActualShownAsNone ==
    /\ SummaryReturned
    /\ MatchingRows("total_cost") # <<>>
    /\ MatchingRows("total_cost")[1].actual = NaN
    /\ summary.value["cost"] =
          [actual |-> None, budget |-> Num(MaxVal), var_pct |-> Num(-5),
           rag |-> "grey"]

\* C20: calc_variance, classify_performance, build_fact_monthly_kpi,
\* summarise_daily_to_monthly and get_executive_summary never raise, also
\* when the fact table built from a scorecard without emittable rows is
\* handed to get_executive_summary.
SummaryNeverRaises ==
    SummaryCalled => SummaryReturned

-----------------------------------------------------------------------------
(* Claims about the registry *)

\* C21: a registry entry whose direction is neither higher_is_better nor
\* lower_is_better is rejected when the registry is loaded, so that no
\* classification is ever computed with such a direction.
InvalidDirectionRejected ==
    registry_entry.direction \notin {"higher_is_better", "lower_is_better"}
        => /\ config_status # "imported"
           /\ rag = NotCalled

-----------------------------------------------------------------------------
(* Claims about the tables handed to the deriving functions *)

ColumnsOf(frame) == {frame.columns[x] : x \in 1..Len(frame.columns)}

\* C22: summarise_daily_to_monthly, get_executive_summary,
\* get_monthly_management_summary and get_consumables_summary leave the table
\* they are handed unchanged; the month and rag columns are in the returned
\* result only.
InputTablesUnchanged ==
    [][/\ df_daily' = df_daily
       /\ monthly_kpis' = monthly_kpis
       /\ fact_consumables' = fact_consumables
       /\ (monthly'.returned /\ monthly'.rows # <<>>)
            => /\ "month" \in ColumnsOf(monthly')
               /\ "month" \notin ColumnsOf(df_daily')
       /\ (mgmt_summary'.status = "returned")
            => /\ "rag" \in ColumnsOf(mgmt_summary'.value)
               /\ "rag" \notin monthly_kpis'.columns
       /\ (consumables_summary'.returned /\ consumables_summary'.rows # <<>>)
            => /\ "rag" \in ColumnsOf(consumables_summary')
               /\ "rag" \notin ColumnsOf(fact_consumables')]_vars

RagOnlyInManagementSummary ==
    /\ summary.status = "returned"
    /\ mgmt_summary.status = "returned"
    /\ Len(mgmt_summary.value.rows) = 2
    /\ mgmt_summary.value.rows[1].rag = "amber"
    /\ Len(monthly_kpis.rows) = 2
    /\ "rag" \notin monthly_kpis.columns
    /\ \A k \in 1..2 : "rag" \notin DOMAIN monthly_kpis.rows[k]

-----------------------------------------------------------------------------
(* Claims about the project tables *)

ProjectsSummarised == project_summary.returned
SummaryRowsOf(id) ==
    SelectSeq(project_summary.rows, LAMBDA r : r.project_id = id)
StatusRowsOf(id) ==
    SelectSeq(fact_project_status.rows, LAMBDA r : r.project_id = id)
DimIds == {dim_project.rows[i].project_id : i \in 1..Len(dim_project.rows)}

\* C23: after any sequence of ingestions with increasing snapshot_date the
\* summary has exactly one row per project, and its status is the status of
\* the project's status row with the most recent snapshot_date.
OneRowWithLatestStatus ==
    ProjectsSummarised =>
        \A id \in DimIds :
            LET status_rows == StatusRowsOf(id)
            IN  status_rows # <<>> =>
                    /\ Len(SummaryRowsOf(id)) = 1
                    /\ SummaryRowsOf(id)[1].status
                            = status_rows[Len(status_rows)].status

\* C30: every project_id of dim_project is in the summary, with missing
\* status fields when it has no status row, and no other project_id is.
SummaryIdsAreDimIds ==
    ProjectsSummarised =>
        /\ {project_summary.rows[i].project_id :
                i \in 1..Len(project_summary.rows)} = DimIds
        /\ \A id \in DimIds :
             StatusRowsOf(id) = <<>> =>
                /\ Len(SummaryRowsOf(id)) = 1
                /\ SummaryRowsOf(id)[1].status = Missing

-----------------------------------------------------------------------------
(* Claims about _derive_status *)

\* C24: the derived status is one of completed, in_progress, pending,
\* delayed, unknown; it is unknown exactly when the comments are empty or
\* hold no status keyword and are at most 5 characters long; the keyword
\* groups are tested in the order completed, in_progress, pending, delayed
\* and the first match wins.
StatusFromFirstKeywordGroup ==
    status # NotCalled =>
        LET lower == Lower(comments)
            completed ==
                \/ Contains(lower, <<"c", "o", "m", "p", "l", "e", "t", "e">>)
                \/ Contains(lower, <<"d", "o", "n", "e">>)
                \/ Contains(lower, <<"c", "l", "o", "s", "e", "d">>)
            in_progress ==
                \/ Contains(lower, <<"i", "n", " ", "p", "r", "o", "g", "r", "e", "s", "s">>)
                \/ Contains(lower, <<"o", "n", "g", "o", "i", "n", "g">>)
                \/ Contains(lower, <<"u", "n", "d", "e", "r", "w", "a", "y">>)
            pending ==
                \/ Contains(lower, <<"p", "e", "n", "d", "i", "n", "g">>)
                \/ Contains(lower, <<"a", "w", "a", "i", "t", "i", "n", "g">>)
                \/ Contains(lower, <<"n", "o", "t", " ", "s", "t", "a", "r", "t", "e", "d">>)
            delayed ==
                \/ Contains(lower, <<"d", "e", "l", "a", "y", "e", "d">>)
                \/ Contains(lower, <<"o", "v", "e", "r", "d", "u", "e">>)
            keyword == completed \/ in_progress \/ pending \/ delayed
        IN  /\ status \in {"completed", "in_progress", "pending", "delayed",
                           "unknown"}
            /\ status = "unknown"
                <=> (comments = <<>> \/ (~keyword /\ Len(comments) <= 5))
            /\ completed => status = "completed"
            /\ (~completed /\ in_progress) => status = "in_progress"
            /\ (~completed /\ ~in_progress /\ pending) => status = "pending"
            /\ (~completed /\ ~in_progress /\ ~pending /\ delayed)
                    => status = "delayed"

FirstGroupWins ==
    /\ comments = <<"a", "w", "a", "i", "t", "i", "n", "g", " ", "o", "n", "g", "o", "i", "n", "g">>
    /\ status = "in_progress"

-----------------------------------------------------------------------------
(* loaders/weekly_report.py: load_weekly_excel *)

\* the categories in the order load_weekly_excel loads them, each with the
\* sheet its loader reads
WeeklyLoaders ==
    <<<<"crushing_milling", "Crushing and Milling">>,
      <<"metal_production", "Metal Production">>,
      <<"consumables", "Consumables">>,
      <<"grind_trend", "Grind">>,
      <<"daily_data", "DATA (2)">>>>

WeeklySheets == {WeeklyLoaders[x][2] : x \in 1..Len(WeeklyLoaders)}

\* one sheet loader: openpyxl.load_workbook raises when the file does not
\* open and wb[name] raises KeyError for a sheet that is not there, except
\* in load_daily_data, which returns an empty DataFrame for it
SheetLoader(loader, file) ==
    IF ~file.opens THEN Raised("Exception")
    ELSE IF loader[2] \in file.sheetnames
         THEN Returned([sheet |-> loader[2], empty |-> FALSE])
    ELSE IF loader[1] = "daily_data"
         THEN Returned([sheet |-> loader[2], empty |-> TRUE])
    ELSE Raised("KeyError")

\* faulty variant: one try block around all the loaders, so the first
\* failure ends the loading
RECURSIVE load_weekly_excel_one_try(_, _, _, _)
load_weekly_excel_one_try(file, x, results, calls) ==
    IF x > Len(WeeklyLoaders)
    THEN [result |-> Returned(results), calls |-> calls]
    ELSE LET loaded == SheetLoader(WeeklyLoaders[x], file)
         IN  IF loaded.status = "returned"
             THEN load_weekly_excel_one_try(file, x + 1,
                      Append(results, <<WeeklyLoaders[x][1], loaded.value>>),
                      Append(calls, WeeklyLoaders[x][1]))
             ELSE [result |-> Returned(results),
                   calls |-> Append(calls, WeeklyLoaders[x][1])]

\* load_weekly_excel from its x-th try block on: results is the dict so far,
\* in insertion order, and calls the loaders called so far
RECURSIVE load_weekly_excel(_, _, _, _)
load_weekly_excel(file, x, results, calls) ==
    IF x > Len(WeeklyLoaders)
    THEN [result |-> Returned(results), calls |-> calls]
    ELSE LET loaded == SheetLoader(WeeklyLoaders[x], file)
         IN  load_weekly_excel(file, x + 1,
                 IF loaded.status = "returned"
                 THEN Append(results, <<WeeklyLoaders[x][1], loaded.value>>)
                 ELSE results,
                 Append(calls, WeeklyLoaders[x][1]))

InitWeekly ==
    /\ KpiDefaults
    /\ kpi_scorecard_df = BlankScorecard
    /\ fact_monthly_kpi = FactNotBuilt
    /\ DailyIdle
    /\ SummaryIdle
    /\ RegistryIdle
    /\ MgmtIdle
    /\ ConsumablesIdle
    /\ ProjectsIdle
    /\ StatusIdle
    /\ SimulatorIdle
    /\ MillBallIdle
    /\ weekly_file \in [opens : BOOLEAN, sheetnames : SUBSET WeeklySheets]
    /\ weekly_calls = <<>>
    /\ weekly_result = SummaryNotCalled

LoadWeeklyExcel ==
    /\ weekly_result.status = "not_called"
    /\ LET done == load_weekly_excel(weekly_file, 1, <<>>, <<>>)
       IN  /\ weekly_result' = done.result
           /\ weekly_calls' = done.calls
    /\ UNCHANGED weekly_file
    /\ UNCHANGED kpiVars
    /\ UNCHANGED factVars
    /\ UNCHANGED dailyVars
    /\ UNCHANGED summaryVars
    /\ UNCHANGED registryVars
    /\ UNCHANGED mgmtVars
    /\ UNCHANGED consumablesVars
    /\ UNCHANGED projectsVars
    /\ UNCHANGED statusVars
    /\ UNCHANGED simulatorVars
    /\ UNCHANGED millBallVars

NextWeekly == LoadWeeklyExcel

SpecWeekly == InitWeekly /\ [][NextWeekly]_vars

-----------------------------------------------------------------------------
(* Claims about the two summaries of one fact table *)

\* C25: on a fact table built by build_fact_monthly_kpi, get_executive_summary
\* and get_monthly_management_summary give the same rag to the same
\* (kpi_name, period) row of each of the six overview KPIs.
SummariesAgreeOnRag ==
    (Built /\ summary.status = "returned" /\ mgmt_summary.status = "returned")
        => \A x \in 1..Len(domain_map) :
             LET of_kpi == SelectSeq(mgmt_summary.value.rows,
                                LAMBDA r : r.kpi_name = domain_map[x][1])
             IN  of_kpi # <<>>
                    => summary.value[domain_map[x][2]].rag = of_kpi[1].rag

BothSummariesRedOnRecovery ==
    /\ Built
    /\ summary.status = "returned"
    /\ mgmt_summary.status = "returned"
    /\ summary.value["recovery"].rag = "red"
    /\ summary.value["cost"].rag = "green"
    /\ Len(mgmt_summary.value.rows) = 2
    /\ mgmt_summary.value.rows[1].rag = "red"
    /\ mgmt_summary.value.rows[2].rag = "green"

-----------------------------------------------------------------------------
(* simulator.py: the simulated KPI tables of load_data *)

\* n_months of generate_monthly_kpis (8 in the source)
MaxMonths == 2

\* two entries of _MONTHLY_PARAMS, in the order of the dict: a KPI whose
\* quarter is a mean and one whose quarter is a sum
MONTHLY_PARAMS ==
    <<[kpi_name |-> "milling_rate_tph", budget |-> Num(520), std |-> Num(8),
       bias |-> Rat(101, 100)],
      [kpi_name |-> "total_cost", budget |-> Rat(98, 10), std |-> Rat(3, 10),
       bias |-> Rat(98, 100)]>>

\* round(x, 2): to the nearest hundredth, ties to the even one
round2(x) ==
    IF x.kind # "num" THEN x
    ELSE LET s == x.n * 100
             q == s \div x.d
             r == s - q * x.d
         IN  Rat(IF 2 * r > x.d THEN q + 1
                 ELSE IF 2 * r = x.d THEN q + (q % 2)
                 ELSE q, 100)

\* _RNG.normal(0, std) taken when `pos` variates were drawn before it
normal(std, pos) == FMul(std, rng_stream[pos + 1])

\* pd.date_range("2025-07-01", periods=n_months, freq="MS")[i - 1]
MonthStart(i) ==
    Timestamp(2025 + ((6 + i - 1) \div 12), ((6 + i - 1) % 12) + 1, 1)

\* start_ts + pd.DateOffset(months=n), for a first-of-month start
AddMonths(ts, n) ==
    Timestamp(ts.y + ((ts.m - 1 + n) \div 12), ((ts.m - 1 + n) % 12) + 1, ts.d)

\* the truth value of var_pct in `round(var_pct, 2) if var_pct else None`:
\* None and 0.0 are both false
Truthy(x) == x.kind = "num" /\ x.n # 0

\* the row appended for one month and one entry of _MONTHLY_PARAMS, drawn
\* when `pos` variates were drawn before it
MonthlyRow(month_, params, pos) ==
    LET budget_ == params.budget
        actual_ == round2(FAdd(FMul(budget_, params.bias),
                               normal(params.std, pos)))
        registry == DictGet(KPI_REGISTRY, params.kpi_name,
                            [direction |-> "higher_is_better"])
        variance == FSub(actual_, budget_)
        var_pct == IF ~FEqZero(budget_)
                   THEN FMul(FDiv(variance, budget_), Num(100)) ELSE None
    IN  [period |-> <<month_.y, month_.m>>,
         month |-> month_,
         plant |-> PLANT_NAME,
         kpi_name |-> params.kpi_name,
         actual |-> actual_,
         budget |-> budget_,
         variance |-> round2(variance),
         variance_pct |-> IF Truthy(var_pct) THEN round2(var_pct) ELSE None,
         direction |-> registry.direction,
         comments |-> None]

\* generate_monthly_kpis("2025-07-01", n_months) called when `pos` variates
\* were drawn: the rows, one variate each, month by month and KPI by KPI
generate_monthly_kpis(n_months, pos) ==
    LET K == Len(MONTHLY_PARAMS)
    IN  [rows |-> [x \in 1..(n_months * K) |->
                     MonthlyRow(MonthStart(((x - 1) \div K) + 1),
                                MONTHLY_PARAMS[((x - 1) % K) + 1],
                                pos + x - 1)],
         pos |-> pos + n_months * K]

quarters ==
    <<<<"FY2026-Q1", Timestamp(2025, 7, 1), 3>>,
      <<"FY2026-Q2", Timestamp(2025, 10, 1), 3>>,
      <<"FY2026-Q3-MTD", Timestamp(2026, 1, 1), 2>>>>

\* monthly[(monthly["month"] >= start_ts) & (monthly["month"] < end_ts)]
QuarterData(monthly_rows, quarter) ==
    SelectSeq(monthly_rows,
              LAMBDA r : /\ ~TimestampLt(r.month, quarter[2])
                         /\ TimestampLt(r.month, AddMonths(quarter[2], quarter[3])))

RECURSIVE SeriesSum(_, _, _)
SeriesSum(rows, col, i) ==
    IF i = 0 THEN Num(0) ELSE FAdd(SeriesSum(rows, col, i - 1), rows[i][col])

SeriesMean(rows, col) == FDiv(SeriesSum(rows, col, Len(rows)), Num(Len(rows)))

SummedKpis == {"crushed_tonnage", "milled_tonnage", "total_cost"}

\* kpi_data["actual"] summed for the tonnages and the cost, averaged otherwise
QuarterAggregate(kpi_data, kpi_name, col) ==
    IF kpi_name \in SummedKpis
    THEN SeriesSum(kpi_data, col, Len(kpi_data))
    ELSE SeriesMean(kpi_data, col)

\* the row appended for one quarter and one KPI that has monthly rows
QuarterlyRow(q_label, kpi_name, kpi_data) ==
    LET registry == DictGet(KPI_REGISTRY, kpi_name,
                            [direction |-> "higher_is_better"])
        actual_ == QuarterAggregate(kpi_data, kpi_name, "actual")
        budget_ == QuarterAggregate(kpi_data, kpi_name, "budget")
        variance == FSub(actual_, budget_)
        var_pct == IF ~FEqZero(budget_)
                   THEN FMul(FDiv(variance, budget_), Num(100)) ELSE None
    IN  [period |-> q_label,
         plant |-> PLANT_NAME,
         kpi_name |-> kpi_name,
         actual |-> round2(actual_),
         budget |-> round2(budget_),
         variance |-> round2(variance),
         variance_pct |-> IF Truthy(var_pct) THEN round2(var_pct) ELSE None,
         direction |-> registry.direction,
         comments |-> None]

\* the rows of the quarters x..3, quarter by quarter and KPI by KPI; a KPI
\* without monthly rows in the quarter is skipped
RECURSIVE QuarterlyRows(_, _, _)
QuarterlyRows(monthly_rows, x, k) ==
    IF x > Len(quarters) THEN <<>>
    ELSE IF k > Len(MONTHLY_PARAMS) THEN QuarterlyRows(monthly_rows, x + 1, 1)
    ELSE LET kpi_name == MONTHLY_PARAMS[k].kpi_name
             kpi_data == SelectSeq(QuarterData(monthly_rows, quarters[x]),
                                   LAMBDA r : r.kpi_name = kpi_name)
         IN  (IF kpi_data = <<>> THEN <<>>
              ELSE <<QuarterlyRow(quarters[x][1], kpi_name, kpi_data)>>)
             \o QuarterlyRows(monthly_rows, x, k + 1)

\* generate_quarterly_kpis() called when `pos` variates were drawn: it
\* generates its own monthly table and aggregates it
generate_quarterly_kpis(n_months, pos) ==
    LET monthly_ == generate_monthly_kpis(n_months, pos)
    IN  [rows |-> QuarterlyRows(monthly_.rows, 1, 1), pos |-> monthly_.pos]

\* the standard normal variates a generator may return
StandardNormals == {Rat(2, 3), Num(-1)}

\* how many variates the two KPI generators of load_data draw
DrawsOfLoadData(n_months) == 2 * n_months * Len(MONTHLY_PARAMS)

\* simulator.py imported: _RNG = np.random.default_rng(42), a fixed stream
\* of which nothing was drawn yet
InitSimulator ==
    /\ KpiDefaults
    /\ kpi_scorecard_df = BlankScorecard
    /\ fact_monthly_kpi = FactNotBuilt
    /\ DailyIdle
    /\ SummaryIdle
    /\ RegistryIdle
    /\ MgmtIdle
    /\ ConsumablesIdle
    /\ ProjectsIdle
    /\ StatusIdle
    /\ rng_stream \in [1..DrawsOfLoadData(MaxMonths) -> StandardNormals]
    /\ rng_pos = 0
    /\ sim_data = SimNotLoaded
    /\ MillBallIdle
    /\ WeeklyIdle

\* load_data(): the quarterly table, then the monthly table. The generators
\* called after these two draw later variates and fill other keys.
LoadData ==
    /\ ~sim_data.loaded
    /\ \E n_months \in 1..MaxMonths :
         LET quarterly == generate_quarterly_kpis(n_months, rng_pos)
             monthly_ == generate_monthly_kpis(n_months, quarterly.pos)
         IN  /\ sim_data' = [loaded |-> TRUE, quarterly |-> quarterly.rows,
                             monthly |-> monthly_.rows]
             /\ rng_pos' = monthly_.pos
    /\ UNCHANGED rng_stream
    /\ UNCHANGED kpiVars
    /\ UNCHANGED factVars
    /\ UNCHANGED dailyVars
    /\ UNCHANGED summaryVars
    /\ UNCHANGED registryVars
    /\ UNCHANGED mgmtVars
    /\ UNCHANGED consumablesVars
    /\ UNCHANGED projectsVars
    /\ UNCHANGED statusVars
    /\ UNCHANGED millBallVars
    /\ UNCHANGED weeklyVars

NextSimulator == LoadData

SpecSimulator == InitSimulator /\ [][NextSimulator]_vars

-----------------------------------------------------------------------------
(* Claims about the simulated tables *)

\* the returned monthly rows of one KPI that fall in a quarter
ReturnedMonthsOf(q_label, kpi_name) ==
    LET quarter == CHOOSE q \in {quarters[x] : x \in 1..Len(quarters)} :
                       q[1] = q_label
    IN  SelectSeq(QuarterData(sim_data.monthly, quarter),
                  LAMBDA r : r.kpi_name = kpi_name)

\* C26: in the dict returned by load_data every quarterly actual is the sum
\* (tonnages, cost) or mean (other KPIs) of the returned monthly actuals of
\* the quarter's months, rounded to 2 decimals.
QuarterlyAggregatesReturnedMonthly ==
    sim_data.loaded
        => \A x \in 1..Len(sim_data.quarterly) :
             LET q == sim_data.quarterly[x]
                 months == ReturnedMonthsOf(q.period, q.kpi_name)
             IN  /\ months # <<>>
                 /\ q.actual = round2(QuarterAggregate(months, q.kpi_name, "actual"))

\* C28: a generated row lacks variance_pct only when its budget is 0.
VariancePctMissingOnlyForZeroBudget ==
    sim_data.loaded
        => /\ \A x \in 1..Len(sim_data.monthly) :
                isna(sim_data.monthly[x].variance_pct)
                    => FEqZero(sim_data.monthly[x].budget)
           /\ \A x \in 1..Len(sim_data.quarterly) :
                isna(sim_data.quarterly[x].variance_pct)
                    => FEqZero(sim_data.quarterly[x].budget)

-----------------------------------------------------------------------------
(* loaders/mill_ball.py: load_mill_ball_trends *)

\* how many monthly date columns the sheet has (10 in the source, N-W)
MaxDateCols == 3

\* the date columns start at N; the last one is MaxDateCols - 1 further on
DATE_COL_START == 14
DATE_COL_END == DATE_COL_START + MaxDateCols - 1

\* the rows of the sheet that are read
DATE_ROW == 10
MILL2_ROW == 25
data_rows ==
    <<<<"projected_milled_tonnage", 11>>,
      <<"mill1_consumption_gt", 18>>,
      <<"mill1_steel_t", 19>>,
      <<"mill1_stock_remaining", 20>>>>
SheetRows == {DATE_ROW, MILL2_ROW} \cup {data_rows[x][2] : x \in 1..Len(data_rows)}

\* the value of a cell: empty, a datetime, a number or a text label
EmptyCell == [type |-> "empty", ts |-> NaT, num |-> None]
DateCell(ts) == [type |-> "datetime", ts |-> ts, num |-> None]
NumberCell(v) == [type |-> "number", ts |-> NaT, num |-> Num(v)]
TextCell == [type |-> "text", ts |-> NaT, num |-> None]

\* ws.cell(row=row, column=column).value
CellValue(ws, row, column) == ws[column - DATE_COL_START + 1][row]

\* normalise_date of an empty cell, a datetime or a text that is no date:
\* None (here NaT) unless the cell holds a datetime
normalise_date(val) == IF val.type = "datetime" THEN val.ts ELSE NaT

\* safe_float of an empty cell, a number or a text label
safe_float(val) == IF val.type = "number" THEN val.num ELSE None

\* data_rows[field_name]
RowOf(field_name) ==
    (CHOOSE e \in {data_rows[x] : x \in 1..Len(data_rows)} : e[1] = field_name)[2]

\* the record of one column with a date: month and the data_rows fields
SeriesRecord(ws, col_idx) ==
    [month |-> normalise_date(CellValue(ws, DATE_ROW, col_idx)),
     projected_milled_tonnage |->
        safe_float(CellValue(ws, RowOf("projected_milled_tonnage"), col_idx)),
     mill1_consumption_gt |->
        safe_float(CellValue(ws, RowOf("mill1_consumption_gt"), col_idx)),
     mill1_steel_t |->
        safe_float(CellValue(ws, RowOf("mill1_steel_t"), col_idx)),
     mill1_stock_remaining |->
        safe_float(CellValue(ws, RowOf("mill1_stock_remaining"), col_idx)),
     mill2_consumption_gt |-> None]

\* _extract_monthly_series over the columns col_idx..col_end: a column whose
\* date cell gives no date is skipped
RECURSIVE extract_monthly_series(_, _, _)
extract_monthly_series(ws, col_idx, col_end) ==
    IF col_idx > col_end THEN <<>>
    ELSE (IF normalise_date(CellValue(ws, DATE_ROW, col_idx)) = NaT THEN <<>>
          ELSE <<SeriesRecord(ws, col_idx)>>)
         \o extract_monthly_series(ws, col_idx + 1, col_end)

\* pd.to_numeric(..., errors="coerce") of a float or None
to_numeric(x) == IF x.kind = "num" THEN x ELSE NaN

\* for i, col_idx in enumerate(range(_DATE_COL_START, _DATE_COL_END + 1)):
\* records[i] takes the row-25 value of the i-th column of the range
WithMill2(ws, records) ==
    [i \in 1..Len(records) |->
        [records[i] EXCEPT !.mill2_consumption_gt =
            safe_float(CellValue(ws, MILL2_ROW, DATE_COL_START + i - 1))]]

\* the DataFrame of the records with its numeric columns coerced
MillBallFrame(records) ==
    [i \in 1..Len(records) |->
        [month |-> records[i].month,
         projected_milled_tonnage |-> to_numeric(records[i].projected_milled_tonnage),
         mill1_consumption_gt |-> to_numeric(records[i].mill1_consumption_gt),
         mill1_steel_t |-> to_numeric(records[i].mill1_steel_t),
         mill1_stock_remaining |-> to_numeric(records[i].mill1_stock_remaining),
         mill2_consumption_gt |-> to_numeric(records[i].mill2_consumption_gt)]]

load_mill_ball_trends(file) ==
    IF ~file.opens THEN Raised("Exception")
    ELSE Returned(MillBallFrame(WithMill2(file.ws,
            extract_monthly_series(file.ws, DATE_COL_START, DATE_COL_END))))

\* the header date of the x-th date column: consecutive months
HeaderDate(x) == Timestamp(2021, x, 1)

\* one sheet column: its date cell, its row-25 cell, and numbers elsewhere
SheetColumn(x, date_cell, mill2_cell) ==
    [row \in SheetRows |->
        IF row = DATE_ROW THEN date_cell
        ELSE IF row = MILL2_ROW THEN mill2_cell
        ELSE NumberCell(row * 100 + DATE_COL_START + x - 1)]

\* the date cell of the x-th date column: empty, a text or the header date
DateCellOf(x, type) ==
    IF type = "datetime" THEN DateCell(HeaderDate(x))
    ELSE IF type = "text" THEN TextCell ELSE EmptyCell

\* the row-25 cell of the x-th date column: a number or empty
Mill2CellOf(x, filled) ==
    IF filled THEN NumberCell(MILL2_ROW * 100 + DATE_COL_START + x - 1)
    ELSE EmptyCell

Worksheets ==
    {[x \in 1..MaxDateCols |->
        SheetColumn(x, DateCellOf(x, types[x]), Mill2CellOf(x, filled[x]))] :
        types \in [1..MaxDateCols -> {"empty", "text", "datetime"}],
        filled \in [1..MaxDateCols -> BOOLEAN]}

InitMillBall ==
    /\ KpiDefaults
    /\ kpi_scorecard_df = BlankScorecard
    /\ fact_monthly_kpi = FactNotBuilt
    /\ DailyIdle
    /\ SummaryIdle
    /\ RegistryIdle
    /\ MgmtIdle
    /\ ConsumablesIdle
    /\ ProjectsIdle
    /\ StatusIdle
    /\ SimulatorIdle
    /\ mill_ball_file \in [opens : BOOLEAN, ws : Worksheets]
    /\ mill_ball_trends = SummaryNotCalled
    /\ WeeklyIdle

LoadMillBallTrends ==
    /\ mill_ball_trends.status = "not_called"
    /\ mill_ball_trends' = load_mill_ball_trends(mill_ball_file)
    /\ UNCHANGED mill_ball_file
    /\ UNCHANGED kpiVars
    /\ UNCHANGED factVars
    /\ UNCHANGED dailyVars
    /\ UNCHANGED summaryVars
    /\ UNCHANGED registryVars
    /\ UNCHANGED mgmtVars
    /\ UNCHANGED consumablesVars
    /\ UNCHANGED projectsVars
    /\ UNCHANGED statusVars
    /\ UNCHANGED simulatorVars
    /\ UNCHANGED weeklyVars

NextMillBall == LoadMillBallTrends

SpecMillBall == InitMillBall /\ [][NextMillBall]_vars

-----------------------------------------------------------------------------
(* Claims about load_mill_ball_trends *)

\* the sheet columns whose date cell holds the month of a record
ColumnsOfMonth(month_) ==
    {col \in DATE_COL_START..DATE_COL_END :
        normalise_date(CellValue(mill_ball_file.ws, DATE_ROW, col)) = month_}

\* C27: every output record's mill2_consumption_gt is the row-25 value of the
\* sheet column its month was read from.
Mill2FromColumnOfMonth ==
    mill_ball_trends.status = "returned"
        => \A i \in 1..Len(mill_ball_trends.value) :
             LET r == mill_ball_trends.value[i]
             IN  \E col \in ColumnsOfMonth(r.month) :
                   r.mill2_consumption_gt
                       = to_numeric(safe_float(
                             CellValue(mill_ball_file.ws, MILL2_ROW, col)))

-----------------------------------------------------------------------------
(* Claims about load_weekly_excel *)

\* the keys of the returned dict
WeeklyKeys ==
    {weekly_result.value[i][1] : i \in 1..Len(weekly_result.value)}

\* C29: load_weekly_excel never raises; it calls the five sheet loaders in
\* the order crushing_milling, metal_production, consumables, grind_trend,
\* daily_data whether or not an earlier one failed, and the returned dict
\* has a category's key exactly when that category's loader returned.
WeeklyLoadNeverRaises ==
    /\ weekly_result.status \in {"not_called", "returned"}
    /\ weekly_result.status = "returned" =>
         /\ weekly_calls = <<"crushing_milling", "metal_production",
                             "consumables", "grind_trend", "daily_data">>
         /\ \A x \in 1..Len(WeeklyLoaders) :
              WeeklyLoaders[x][1] \in WeeklyKeys
                  <=> SheetLoader(WeeklyLoaders[x], weekly_file).status
                          = "returned"

LaterLoadersRunAfterFailure ==
    /\ weekly_result.status = "returned"
    /\ weekly_file.opens
    /\ "Metal Production" \notin weekly_file.sheetnames
    /\ "DATA (2)" \notin weekly_file.sheetnames
    /\ WeeklyKeys = {"crushing_milling", "consumables", "grind_trend",
                     "daily_data"}
    /\ Len(weekly_calls) = 5

====
